---- MODULE Spec2Model ----
(***************************************************************************)
(* A model of the CoAP message codec (src/src/packet.rs), the URI-path     *)
(* router (src/src/router.rs) and the UDP server runtime                   *)
(* (src/src/server.rs).                                                    *)
(*                                                                         *)
(* Bytes are naturals 0..255 and byte strings are sequences of bytes.      *)
(* Indices of the code are 0-based; At and Slice translate them.           *)
(* The bit operations of the code are written arithmetically: x >> k is    *)
(* x \div 2^k, x & (2^k - 1) is x % 2^k, and an | of disjoint bit fields   *)
(* is a sum.  u16::from_be is modelled for a little-endian target.         *)
(***************************************************************************)
EXTENDS Integers, Sequences, FiniteSets, TLC

VARIABLES
    \* ---- code/class conversions (packet.rs 80..163)
    code, codeOut, codeStr, setOut,
    \* ---- Packet::from_bytes on arbitrary bytes
    buf, overflowChecks, parsed,
    \* ---- a Packet built through its public API, encoded and decoded again
    pkt, nOps, ppc, wire, decoded, autoResp,
    \* ---- CoAPRouter
    routes, nRoutes, req, rpc, routed, called,
    \* ---- CoAPServer and its threads
    event_sender, event_thread, tx_thread, worker_num,
    ownerPc, ret, nCalls, gen, startedSinceStop,
    dispatcher, evState, ctl, txState, txQueue, poolSize, poolQueue, running,
    socketBuf, readyPending, nArrived, sent, stopDone, handled, txLog

codeVars   == <<code, codeOut, codeStr, setOut>>
decodeVars == <<buf, overflowChecks, parsed>>
packetVars == <<pkt, nOps, ppc, wire, decoded, autoResp>>
routerVars == <<routes, nRoutes, req, rpc, routed, called>>
serverVars == <<event_sender, event_thread, tx_thread, worker_num,
                ownerPc, ret, nCalls, gen, startedSinceStop,
                dispatcher, evState, ctl, txState, txQueue, poolSize,
                poolQueue, running,
                socketBuf, readyPending, nArrived, sent, stopDone, handled,
                txLog>>
vars == <<codeVars, decodeVars, packetVars, routerVars, serverVars>>

(***************************************************************************)
(* Helpers for byte strings.                                               *)
(***************************************************************************)
At(s, i) == s[i + 1]

Slice(s, from, to) == SubSeq(s, from + 1, to)

Rep(n, b) == [i \in 1..n |-> b]

NoValue == "none"

(***************************************************************************)
(* PacketClass and the code <-> class tables.                              *)
(***************************************************************************)
Empty == <<"Empty", "">>

Request(m) == <<"Request", m>>

Response(r) == <<"Response", r>>

Reserved == <<"Reserved", "">>

class_to_code_Precondition87(class) ==
    CASE class = Empty -> 0
      [] class = Request("Get") -> 1
      [] class = Request("Post") -> 2
      [] class = Request("Put") -> 3
      [] class = Request("Delete") -> 4
      [] class = Response("Created") -> 65
      [] class = Response("Deleted") -> 66
      [] class = Response("Valid") -> 67
      [] class = Response("Changed") -> 68
      [] class = Response("Content") -> 69
      [] class = Response("BadRequest") -> 128
      [] class = Response("Unauthorized") -> 129
      [] class = Response("BadOption") -> 130
      [] class = Response("Forbidden") -> 131
      [] class = Response("NotFound") -> 132
      [] class = Response("MethodNotAllowed") -> 133
      [] class = Response("NotAcceptable") -> 134
      [] class = Response("PreconditionFailed") -> 135
      [] class = Response("RequestEntityTooLarge") -> 141
      [] class = Response("UnsupportedContentFormat") -> 143
      [] class = Response("InternalServerError") -> 144
      [] class = Response("NotImplemented") -> 145
      [] class = Response("BadGateway") -> 146
      [] class = Response("ServiceUnavailable") -> 147
      [] class = Response("GatewayTimeout") -> 148
      [] class = Response("ProxyingNotSupported") -> 149
      [] OTHER -> 255

class_to_code(class) ==
    CASE class = Empty -> 0                                    \* 0x00
      [] class = Request("Get") -> 1                           \* 0x01
      [] class = Request("Post") -> 2                          \* 0x02
      [] class = Request("Put") -> 3                           \* 0x03
      [] class = Request("Delete") -> 4                        \* 0x04
      [] class = Response("Created") -> 65                     \* 0x41
      [] class = Response("Deleted") -> 66                     \* 0x42
      [] class = Response("Valid") -> 67                       \* 0x43
      [] class = Response("Changed") -> 68                     \* 0x44
      [] class = Response("Content") -> 69                     \* 0x45
      [] class = Response("BadRequest") -> 128                 \* 0x80
      [] class = Response("Unauthorized") -> 129               \* 0x81
      [] class = Response("BadOption") -> 130                  \* 0x82
      [] class = Response("Forbidden") -> 131                  \* 0x83
      [] class = Response("NotFound") -> 132                   \* 0x84
      [] class = Response("MethodNotAllowed") -> 133           \* 0x85
      [] class = Response("NotAcceptable") -> 134              \* 0x86
      [] class = Response("PreconditionFailed") -> 140         \* 0x8C
      [] class = Response("RequestEntityTooLarge") -> 141      \* 0x8D
      [] class = Response("UnsupportedContentFormat") -> 143   \* 0x8F
      [] class = Response("InternalServerError") -> 144        \* 0x90
      [] class = Response("NotImplemented") -> 145             \* 0x91
      [] class = Response("BadGateway") -> 146                 \* 0x92
      [] class = Response("ServiceUnavailable") -> 147         \* 0x93
      [] class = Response("GatewayTimeout") -> 148             \* 0x94
      [] class = Response("ProxyingNotSupported") -> 149       \* 0x95
      [] OTHER -> 255                                          \* _ => 0xFF

code_to_class(c) ==
    CASE c = 0 -> Empty
      [] c = 1 -> Request("Get")
      [] c = 2 -> Request("Post")
      [] c = 3 -> Request("Put")
      [] c = 4 -> Request("Delete")
      [] c = 65 -> Response("Created")
      [] c = 66 -> Response("Deleted")
      [] c = 67 -> Response("Valid")
      [] c = 68 -> Response("Changed")
      [] c = 69 -> Response("Content")
      [] c = 128 -> Response("BadRequest")
      [] c = 129 -> Response("Unauthorized")
      [] c = 130 -> Response("BadOption")
      [] c = 131 -> Response("Forbidden")
      [] c = 132 -> Response("NotFound")
      [] c = 133 -> Response("MethodNotAllowed")
      [] c = 134 -> Response("NotAcceptable")
      [] c = 140 -> Response("PreconditionFailed")
      [] c = 141 -> Response("RequestEntityTooLarge")
      [] c = 143 -> Response("UnsupportedContentFormat")
      [] c = 144 -> Response("InternalServerError")
      [] c = 145 -> Response("NotImplemented")
      [] c = 146 -> Response("BadGateway")
      [] c = 147 -> Response("ServiceUnavailable")
      [] c = 148 -> Response("GatewayTimeout")
      [] c = 149 -> Response("ProxyingNotSupported")
      [] OTHER -> Reserved

(***************************************************************************)
(* format!("{}.{:02}", class_code, detail_code): strings are sequences of  *)
(* one-character strings.                                                  *)
(***************************************************************************)
DigitChar(d) == At(<<"0", "1", "2", "3", "4", "5", "6", "7", "8", "9">>, d)

RECURSIVE Decimal(_)
Decimal(n) == IF n < 10 THEN <<DigitChar(n)>>
              ELSE Append(Decimal(n \div 10), DigitChar(n % 10))

\* {:02}: left-padded with zeros to a width of at least two
Decimal02(n) == IF n < 10 THEN <<"0">> \o Decimal(n) ELSE Decimal(n)

code_to_str(c) ==
    LET class_code  == (c \div 32) % 8      \* (0xE0 & code) >> 5
        detail_code == c % 32               \* 0x1F & code
    IN  Decimal(class_code) \o <<".">> \o Decimal02(detail_code)

class_to_str(class) == code_to_str(class_to_code(class))

(***************************************************************************)
(* PacketHeader: ver_type_tkl, code (a PacketClass), message_id.           *)
(***************************************************************************)
HeaderNew == [ver_type_tkl |-> 0, code |-> code_to_class(0), message_id |-> 0]

from_raw(raw) == [ver_type_tkl |-> raw.ver_type_tkl,
                  code         |-> code_to_class(raw.code),
                  message_id   |-> raw.message_id]

to_raw(header) == [ver_type_tkl |-> header.ver_type_tkl,
                   code         |-> class_to_code(header.code),
                   message_id   |-> header.message_id]

\* v << 6 | (0x3F & ver_type_tkl), in u8
set_version(header, v) ==
    [header EXCEPT !.ver_type_tkl = ((v * 64) % 256) + (@ % 64)]

get_version(header) == header.ver_type_tkl \div 64

TypeNumber(t) == CASE t = "Confirmable" -> 0
                   [] t = "NonConfirmable" -> 1
                   [] t = "Acknowledgement" -> 2
                   [] t = "Reset" -> 3

\* tn << 4 | (0xCF & ver_type_tkl)
set_type(header, t) ==
    [header EXCEPT !.ver_type_tkl =
        TypeNumber(t) * 16 + ((@ \div 64) * 64 + (@ % 16))]

get_type(header) ==
    LET tn == (header.ver_type_tkl \div 16) % 4
    IN  CASE tn = 0 -> "Confirmable"
          [] tn = 1 -> "NonConfirmable"
          [] tn = 2 -> "Acknowledgement"
          [] tn = 3 -> "Reset"
          [] OTHER -> "Invalid"

\* tkl | (0xF0 & ver_type_tkl); the caller has checked 0xF0 & tkl = 0
set_token_length(header, tkl) ==
    [header EXCEPT !.ver_type_tkl = tkl + (@ \div 16) * 16]

get_token_length(header) == header.ver_type_tkl % 16

(***************************************************************************)
(* PacketHeader::set_code and get_code.  code.split('.') gives the pieces  *)
(* between the dots; parse::<u8>() accepts an optional '+' and then one    *)
(* or more decimal digits whose value fits a u8.  A result of set_code is  *)
(* [tag |-> "Ok", header |-> h], or tag "Panic" when an assert_eq! or an   *)
(* unwrap fails.                                                           *)
(***************************************************************************)
RECURSIVE split(_, _)
split(s, sep) ==
    IF \A i \in 1..Len(s) : s[i] # sep
    THEN <<s>>
    ELSE LET i == CHOOSE j \in 1..Len(s) :
                      s[j] = sep /\ \A k \in 1..(j - 1) : s[k] # sep
         IN  <<SubSeq(s, 1, i - 1)>> \o split(SubSeq(s, i + 1, Len(s)), sep)

ParseErr == [ok |-> FALSE, value |-> 0]

\* the digits of a u8, most significant first; an overflow is an error
RECURSIVE ParseDigits(_, _)
ParseDigits(s, acc) ==
    LET IsDigit == \E d \in 0..9 : DigitChar(d) = Head(s)
        next == acc * 10 + (CHOOSE d \in 0..9 : DigitChar(d) = Head(s))
    IN  IF s = <<>> THEN [ok |-> TRUE, value |-> acc]
        ELSE IF ~IsDigit THEN ParseErr
        ELSE IF next > 255 THEN ParseErr
        ELSE ParseDigits(Tail(s), next)

parse_u8(s) ==
    LET digits == IF s # <<>> /\ Head(s) = "+" THEN Tail(s) ELSE s
    IN  IF digits = <<>> THEN ParseErr ELSE ParseDigits(digits, 0)

SetCodePanic == [tag |-> "Panic", header |-> HeaderNew]

set_code_Shift4(header, code_str) ==
    LET code_vec == split(code_str, ".")
    IN  IF Len(code_vec) # 2 THEN SetCodePanic
        ELSE LET class_code  == parse_u8(code_vec[1])
                 detail_code == parse_u8(code_vec[2])
             IN  IF ~class_code.ok \/ ~detail_code.ok THEN SetCodePanic
                 ELSE IF class_code.value \div 8 # 0 THEN SetCodePanic
                 ELSE IF detail_code.value \div 32 # 0 THEN SetCodePanic
                 ELSE [tag    |-> "Ok",
                       header |-> [header EXCEPT !.code =
                           code_to_class(((class_code.value * 16) % 256)
                                         + detail_code.value)]]

set_code(header, code_str) ==
    LET code_vec == split(code_str, ".")
    IN  IF Len(code_vec) # 2 THEN SetCodePanic              \* assert_eq! 238
        ELSE LET class_code  == parse_u8(code_vec[1])
                 detail_code == parse_u8(code_vec[2])
             IN  IF ~class_code.ok \/ ~detail_code.ok       \* unwrap 240, 241
                 THEN SetCodePanic
                 \* assert_eq!(0xF8 & class_code, 0)
                 ELSE IF class_code.value \div 8 # 0 THEN SetCodePanic
                 \* assert_eq!(0xE0 & detail_code, 0)
                 ELSE IF detail_code.value \div 32 # 0 THEN SetCodePanic
                 \* class_code << 5 | detail_code, in u8
                 ELSE [tag    |-> "Ok",
                       header |-> [header EXCEPT !.code =
                           code_to_class(((class_code.value * 32) % 256)
                                         + detail_code.value)]]

get_code(header) == class_to_str(header.code)

(***************************************************************************)
(* The option map, BTreeMap<usize, LinkedList<Vec<u8>>>: a function from   *)
(* the numbers present to the list of their values.                        *)
(***************************************************************************)
EmptyMap == [k \in {} |-> <<>>]

MapInsert(options, num, list) ==
    [k \in DOMAIN options \cup {num} |-> IF k = num THEN list ELSE options[k]]

\* the append of from_bytes (449..456) and of add_option (337..347)
MapPushBack(options, num, value) ==
    IF num \in DOMAIN options
    THEN [options EXCEPT ![num] = Append(@, value)]
    ELSE MapInsert(options, num, <<value>>)

(***************************************************************************)
(* Packet::from_bytes.  A result is [tag |-> "Ok", packet |-> p],          *)
(* [tag |-> "Err", err |-> e], or [tag |-> "Panic"] when the thread        *)
(* panics.  checks tells whether the build checks integer overflow         *)
(* (debug builds do, release builds wrap).                                 *)
(***************************************************************************)
\* the packet field of a result that holds no packet
NoPacket == [header |-> HeaderNew, token |-> <<>>, options |-> EmptyMap,
             payload |-> <<>>]

Ok(p) == [tag |-> "Ok", packet |-> p, err |-> ""]

Err(e) == [tag |-> "Err", packet |-> NoPacket, err |-> e]

Panic == [tag |-> "Panic", packet |-> NoPacket, err |-> ""]

\* no result yet
NotYet == [tag |-> "None", packet |-> NoPacket, err |-> ""]

bincode_decode_FiveBytes(b) ==
    IF Len(b) < 5
    THEN [ok |-> FALSE, raw |-> [ver_type_tkl |-> 0, code |-> 0, message_id |-> 0]]
    ELSE [ok |-> TRUE,
          raw |-> [ver_type_tkl |-> At(b, 0), code |-> At(b, 1),
                   message_id |-> At(b, 2) * 256 + At(b, 3)]]

\* bincode::decode of PacketHeaderRaw {u8, u8, u16}: big-endian, four bytes
bincode_decode(b) ==
    IF Len(b) < 4
    THEN [ok |-> FALSE, raw |-> [ver_type_tkl |-> 0, code |-> 0, message_id |-> 0]]
    ELSE [ok |-> TRUE,
          raw |-> [ver_type_tkl |-> At(b, 0), code |-> At(b, 1),
                   message_id |-> At(b, 2) * 256 + At(b, 3)]]

\* the macro u8_to_unsigned_be!(src, start, end, u16):
\* fold over i = end-start .. 0 of  acc | src[start+i] << i*8
RECURSIVE u8_to_unsigned_be(_, _, _)
u8_to_unsigned_be(src, start, i) ==
    IF i < 0 THEN 0
    ELSE ((At(src, start + i) * (2 ^ (i * 8))) % 65536)
         + u8_to_unsigned_be(src, start, i - 1)

\* u16::from_be on a little-endian target: the two bytes are swapped
u16_from_be(x) == (x % 256) * 256 + (x \div 256)

\* a + b in u16: a panic when overflow is checked, wrapped otherwise
u16_add(a, b, checks) ==
    IF a + b > 65535
    THEN (IF checks THEN [panic |-> TRUE, val |-> 0]
                    ELSE [panic |-> FALSE, val |-> (a + b) % 65536])
    ELSE [panic |-> FALSE, val |-> a + b]

\* One extended field (the match on delta, 393..414, or on length,
\* 417..439); nibble15 is the error of the arm for 15.
ExtOk(v, i) == [tag |-> "Ok", val |-> v, idx |-> i, err |-> ""]

ExtErr(e) == [tag |-> "Err", val |-> 0, idx |-> 0, err |-> e]

ExtPanic == [tag |-> "Panic", val |-> 0, idx |-> 0, err |-> ""]

DecodeExtended(b, nibble, idx, nibble15, checks) ==
    CASE nibble = 13 ->
           IF idx >= Len(b) THEN ExtErr("InvalidOptionLength")
           ELSE ExtOk(At(b, idx) + 13, idx + 1)
      [] nibble = 14 ->
           IF idx + 1 >= Len(b) THEN ExtErr("InvalidOptionLength")
           ELSE LET sum == u16_add(u16_from_be(u8_to_unsigned_be(b, idx, 1)),
                                   269, checks)
                IN  IF sum.panic THEN ExtPanic ELSE ExtOk(sum.val, idx + 2)
      [] nibble = 15 -> ExtErr(nibble15)
      [] OTHER -> ExtOk(nibble, idx)

\* the loop of from_bytes, 380..459
RECURSIVE ParseOptions(_, _, _, _, _)
ParseOptions(b, idx, options_number, options, checks) ==
    IF ~(idx < Len(b)) \/ At(b, idx) = 255
    THEN [tag |-> "Ok", idx |-> idx, options |-> options, err |-> ""]
    ELSE LET byte == At(b, idx)
             d == DecodeExtended(b, byte \div 16, idx + 1,
                                 "InvalidOptionDelta", checks)
         IN  IF d.tag # "Ok"
             THEN [tag |-> d.tag, idx |-> idx, options |-> options, err |-> d.err]
             ELSE LET l == DecodeExtended(b, byte % 16, d.idx,
                                          "InvalidOptionLength", checks)
                  IN  IF l.tag # "Ok"
                      THEN [tag |-> l.tag, idx |-> idx, options |-> options,
                            err |-> l.err]
                      ELSE LET number == options_number + d.val
                               end == l.idx + l.val
                           IN  IF end > Len(b)
                               THEN [tag |-> "Err", idx |-> idx,
                                     options |-> options,
                                     err |-> "InvalidOptionLength"]
                               ELSE ParseOptions(b, end, number,
                                        MapPushBack(options, number,
                                                    Slice(b, l.idx, end)),
                                        checks)

TokenLengthTooBig15(token_length) == token_length > 15

\* 367..369
TokenLengthTooBig(token_length) == token_length > 8

from_bytes_MarkerInPayload(b, checks) ==
    LET header_result == bincode_decode(b)
    IN  IF ~header_result.ok THEN Err("InvalidHeader")
        ELSE LET header == from_raw(header_result.raw)
                 token_length == get_token_length(header)
                 options_start == 4 + token_length
             IN  IF TokenLengthTooBig(token_length)
                 THEN Err("InvalidTokenLength")
                 ELSE IF options_start > Len(b)
                 THEN Err("InvalidTokenLength")
                 ELSE LET token == Slice(b, 4, options_start)
                          o == ParseOptions(b, options_start, 0, EmptyMap, checks)
                      IN  CASE o.tag = "Panic" -> Panic
                            [] o.tag = "Err" -> Err(o.err)
                            [] OTHER ->
                                 Ok([header  |-> header,
                                     token   |-> token,
                                     options |-> o.options,
                                     payload |-> IF o.idx < Len(b)
                                                 THEN Slice(b, o.idx, Len(b))
                                                 ELSE <<>>])

from_bytes(b, checks) ==
    LET header_result == bincode_decode(b)
    IN  IF ~header_result.ok THEN Err("InvalidHeader")
        ELSE LET header == from_raw(header_result.raw)
                 token_length == get_token_length(header)
                 options_start == 4 + token_length
             IN  IF TokenLengthTooBig(token_length)
                 THEN Err("InvalidTokenLength")
                 ELSE IF options_start > Len(b)
                 THEN Err("InvalidTokenLength")
                 ELSE LET token == Slice(b, 4, options_start)
                          o == ParseOptions(b, options_start, 0, EmptyMap, checks)
                      IN  CASE o.tag = "Panic" -> Panic
                            [] o.tag = "Err" -> Err(o.err)
                            [] OTHER ->
                                 Ok([header  |-> header,
                                     token   |-> token,
                                     options |-> o.options,
                                     payload |-> IF o.idx < Len(b)
                                                 THEN Slice(b, o.idx + 1, Len(b))
                                                 ELSE <<>>])

(***************************************************************************)
(* Packet and its public API.                                              *)
(***************************************************************************)
PacketNew == [header |-> HeaderNew, token |-> <<>>, options |-> EmptyMap,
              payload |-> <<>>]

get_option_number(tp) ==
    CASE tp = "IfMatch" -> 1
      [] tp = "UriHost" -> 3
      [] tp = "ETag" -> 4
      [] tp = "IfNoneMatch" -> 5
      [] tp = "Observe" -> 6
      [] tp = "UriPort" -> 7
      [] tp = "LocationPath" -> 8
      [] tp = "UriPath" -> 11
      [] tp = "ContentFormat" -> 12
      [] tp = "MaxAge" -> 14
      [] tp = "UriQuery" -> 15
      [] tp = "Accept" -> 17
      [] tp = "LocationQuery" -> 20
      [] tp = "Block2" -> 23
      [] tp = "Block1" -> 27
      [] tp = "ProxyUri" -> 35
      [] tp = "ProxyScheme" -> 39
      [] tp = "Size1" -> 60

\* token.len() as u8 must have a zero high nibble (assert_eq! in
\* set_token_length); otherwise the call panics
set_token_panics(token) == ((Len(token) % 256) \div 16) # 0

set_token(p, token) ==
    [p EXCEPT !.header = set_token_length(@, Len(token) % 256),
              !.token = token]

set_option(p, tp, value) ==
    [p EXCEPT !.options = MapInsert(@, get_option_number(tp), value)]

add_option_PushFront(p, tp, value) ==
    LET num == get_option_number(tp)
    IN  IF num \in DOMAIN p.options
        THEN [p EXCEPT !.options[num] = <<value>> \o @]
        ELSE [p EXCEPT !.options = MapInsert(@, num, <<value>>)]

add_option(p, tp, value) ==
    [p EXCEPT !.options = MapPushBack(@, get_option_number(tp), value)]

set_payload(p, payload) == [p EXCEPT !.payload = payload]

\* Some(list) or None
get_option(p, tp) ==
    LET num == get_option_number(tp)
    IN  IF num \in DOMAIN p.options
        THEN [some |-> TRUE, list |-> p.options[num]]
        ELSE [some |-> FALSE, list |-> <<>>]

(***************************************************************************)
(* Packet::to_bytes.                                                       *)
(***************************************************************************)
MaxPacketLen == 1280

\* the nibble of the first option byte for a delta or a length, 488..501
Nibble(v) == IF v <= 12 THEN v ELSE IF v < 269 THEN 13 ELSE 14

ExtensionBytesLittleEndian(v) ==
    IF v > 12 /\ v < 269 THEN <<(v - 13) % 256>>
    ELSE IF v >= 269
         THEN LET fix == (v - 269) % 65536
              IN  <<fix % 256, (fix \div 256) % 256>>
         ELSE <<>>

\* the extension bytes of a delta or a length, 504..518
ExtensionBytes(v) ==
    IF v > 12 /\ v < 269 THEN <<(v - 13) % 256>>
    ELSE IF v >= 269
         THEN LET fix == (v - 269) % 65536
              IN  <<(fix \div 256) % 256, fix % 256>>
         ELSE <<>>

OptionHeaderSwapped(delta, len) ==
    <<((Nibble(len) * 16) % 256) + Nibble(delta)>>
        \o ExtensionBytes(delta) \o ExtensionBytes(len)

\* the header of one option, 484..518: the first byte, the extension
\* bytes of the delta, then those of the length
OptionHeader(delta, len) ==
    <<((Nibble(delta) * 16) % 256) + Nibble(len)>>
        \o ExtensionBytes(delta) \o ExtensionBytes(len)

Min(S) == CHOOSE x \in S : \A y \in S : x <= y

RECURSIVE EncodeValuesAbsolute(_, _, _)
EncodeValuesAbsolute(number, value_list, options_delta_length) ==
    IF value_list = <<>>
    THEN [bytes |-> <<>>, options_delta_length |-> options_delta_length]
    ELSE LET value == Head(value_list)
             rest  == EncodeValuesAbsolute(number, Tail(value_list), number)
         IN  [bytes |-> OptionHeader(number, Len(value)) \o value \o rest.bytes,
              options_delta_length |-> rest.options_delta_length]

\* the values of one option number, in list order (483..534)
RECURSIVE EncodeValues(_, _, _)
EncodeValues(number, value_list, options_delta_length) ==
    IF value_list = <<>>
    THEN [bytes |-> <<>>, options_delta_length |-> options_delta_length]
    ELSE LET value == Head(value_list)
             delta == number - options_delta_length
             rest  == EncodeValues(number, Tail(value_list),
                                   options_delta_length + delta)
         IN  [bytes |-> OptionHeader(delta, Len(value)) \o value \o rest.bytes,
              options_delta_length |-> rest.options_delta_length]

\* self.options.iter(): numbers in ascending order (482..535)
RECURSIVE EncodeOptions(_, _, _)
EncodeOptions(options, numbers, options_delta_length) ==
    IF numbers = {} THEN <<>>
    ELSE LET number == Min(numbers)
             these  == EncodeValues(number, options[number], options_delta_length)
         IN  these.bytes \o EncodeOptions(options, numbers \ {number},
                                          these.options_delta_length)

\* bincode::encode_into of PacketHeaderRaw: four bytes, big-endian
bincode_encode(raw) ==
    <<raw.ver_type_tkl, raw.code, raw.message_id \div 256, raw.message_id % 256>>

\* 537..541: the length the size check uses
CheckedLength(p, options_bytes) ==
    4 + Len(p.payload) + Len(p.token)
      + (IF p.header.code # Empty /\ Len(p.payload) # 0 THEN 1 ELSE 0)
      + Len(options_bytes)

AssembleAlwaysPayload(p, options_bytes) ==
    bincode_encode(to_raw(p.header)) \o p.token \o options_bytes
      \o (IF Len(p.payload) # 0 THEN <<255>> \o p.payload ELSE <<>>)

\* 547..579: the bytes to_bytes assembles
Assemble(p, options_bytes) ==
    bincode_encode(to_raw(p.header)) \o p.token \o options_bytes
      \o (IF p.header.code # Empty /\ Len(p.payload) # 0
          THEN <<255>> \o p.payload ELSE <<>>)

\* [tag |-> "Ok", bytes |-> b] or [tag |-> "Err", err |-> e]
to_bytes(p) ==
    LET options_bytes == EncodeOptions(p.options, DOMAIN p.options, 0)
    IN  IF CheckedLength(p, options_bytes) > MaxPacketLen
        THEN [tag |-> "Err", bytes |-> <<>>, err |-> "InvalidPacketLength"]
        ELSE [tag |-> "Ok", bytes |-> Assemble(p, options_bytes), err |-> ""]

(***************************************************************************)
(* auto_response, 610..627.                                                *)
(***************************************************************************)
AutoResponseForEveryType(request_packet) ==
    LET h1 == set_type(set_version(HeaderNew, 1), "Acknowledgement")
        h2 == [h1 EXCEPT !.code = Response("Content"),
                         !.message_id = request_packet.header.message_id]
        p1 == set_token([PacketNew EXCEPT !.header = h2], request_packet.token)
    IN  [some |-> TRUE, packet |-> [p1 EXCEPT !.payload = request_packet.payload]]

auto_response(request_packet) ==
    LET t == get_type(request_packet.header)
    IN  IF t \notin {"Confirmable", "NonConfirmable"}
        THEN [some |-> FALSE, packet |-> NoPacket]
        ELSE LET response_type == IF t = "Confirmable" THEN "Acknowledgement"
                                  ELSE "NonConfirmable"
                 h1 == set_type(set_version(HeaderNew, 1), response_type)
                 h2 == [h1 EXCEPT !.code = Response("Content"),
                                  !.message_id = request_packet.header.message_id]
                 p1 == set_token([PacketNew EXCEPT !.header = h2],
                                 request_packet.token)
             IN  [some |-> TRUE,
                  packet |-> [p1 EXCEPT !.payload = request_packet.payload]]

(***************************************************************************)
(* Values the variables of the other parts keep while one part runs.       *)
(***************************************************************************)
NoCodeOut == [done |-> FALSE, class |-> Reserved, back |-> 0,
              code_str |-> <<>>, class_str |-> <<>>]

\* set_code not called yet
NoSetOut == [done |-> FALSE, tag |-> "None", raw_code |-> 0, get_code |-> <<>>]

CodeIdle == /\ code = 0 /\ codeOut = NoCodeOut
            /\ codeStr = <<>> /\ setOut = NoSetOut

DecodeIdle == buf = <<>> /\ overflowChecks = TRUE /\ parsed = NotYet

NoWire == [tag |-> "None", bytes |-> <<>>, err |-> ""]

\* auto_response not called yet
NoAutoResponse == [done |-> FALSE, some |-> FALSE, packet |-> NoPacket]

PacketIdle == /\ pkt = PacketNew /\ nOps = 0 /\ ppc = "idle"
              /\ wire = NoWire /\ decoded = NotYet
              /\ autoResp = NoAutoResponse

NoRequest == [message |-> NoPacket, response |-> [some |-> FALSE, packet |-> NoPacket],
              source |-> 0]

NoResponse == [some |-> FALSE, message |-> NoPacket]

RouterIdle == /\ routes = EmptyMap /\ nRoutes = 0 /\ req = NoRequest
              /\ rpc = "off" /\ routed = NoResponse /\ called = NoValue

(***************************************************************************)
(* CodeSpec: the four conversions applied to every code byte, and set_code *)
(* applied to dotted strings.                                              *)
(***************************************************************************)
CodeBytes == 0..255

\* the arguments set_code is called with for the code byte c: its dotted
\* form "C.DD", the same without the zero padding, and three strings the
\* assertions reject (class 8..15, detail 32..63, a single component)
DottedStrings(c) ==
    LET class_code  == c \div 32
        detail_code == c % 32
    IN  { Decimal(class_code) \o <<".">> \o Decimal02(detail_code),
          Decimal(class_code) \o <<".">> \o Decimal(detail_code),
          Decimal(class_code + 8) \o <<".">> \o Decimal02(detail_code),
          Decimal(class_code) \o <<".">> \o Decimal(detail_code + 32),
          Decimal(class_code) }

Convert ==
    /\ ~codeOut.done
    /\ codeOut' = [done      |-> TRUE,
                   class     |-> code_to_class(code),
                   back      |-> class_to_code(code_to_class(code)),
                   code_str  |-> code_to_str(code),
                   class_str |-> class_to_str(code_to_class(code))]
    /\ UNCHANGED <<code, codeStr, setOut>>
    /\ UNCHANGED <<decodeVars, packetVars, routerVars, serverVars>>

\* header.set_code(codeStr), then header.to_raw() and header.get_code()
SetCodeStr ==
    /\ ~setOut.done
    /\ LET r == set_code(HeaderNew, codeStr)
       IN  setOut' = [done     |-> TRUE,
                      tag      |-> r.tag,
                      raw_code |-> to_raw(r.header).code,
                      get_code |-> get_code(r.header)]
    /\ UNCHANGED <<code, codeOut, codeStr>>
    /\ UNCHANGED <<decodeVars, packetVars, routerVars, serverVars>>

(***************************************************************************)
(* DecodeSpec: from_bytes applied to arbitrary byte strings, in a build    *)
(* that checks overflow and in one that does not.                          *)
(***************************************************************************)
MaxTail == 3

\* first header bytes: version 1, Confirmable, token_length 0, 1, 8, 9
FirstBytes == {64, 65, 72, 73}

TokenCounts == {0, 1, 8, 9}

\* 0x00, 0x01, 0x0D, 0x0E, 0x0F, 0xD0, 0xE0, 0xF0, 0xFF
TailBytes == {0, 1, 13, 14, 15, 208, 224, 240, 255}

SeqsUpTo(S, n) == UNION {[1..k -> S] : k \in 0..n}

\* buffers of up to three bytes; headers of four bytes with every version
\* and several code bytes; and headers with a token_length of FirstBytes
\* followed by TokenCounts bytes 0xFF and a tail of option bytes
DecodeInputs ==
    SeqsUpTo({64, 255}, 3)
      \cup {<<v * 64 + 16, c, 132, 158>> : v \in 0..3, c \in {0, 5, 69, 224, 255}}
      \cup {<<f, 1, 132, 158>> \o Rep(k, 255) \o t :
               f \in FirstBytes, k \in TokenCounts, t \in SeqsUpTo(TailBytes, MaxTail)}

Decode ==
    /\ parsed.tag = "None"
    /\ parsed' = from_bytes(buf, overflowChecks)
    /\ UNCHANGED <<buf, overflowChecks, codeVars, packetVars, routerVars, serverVars>>

(***************************************************************************)
(* UTF-8 validation, as String::from_utf8 performs it.  A String keeps the *)
(* bytes it was made from, so a valid path is its byte string.             *)
(***************************************************************************)
IsCont(b) == b >= 128 /\ b <= 191

RECURSIVE ValidUtf8(_)
ValidUtf8(s) ==
    IF s = <<>> THEN TRUE
    ELSE LET b == Head(s)
             n == Len(s)
         IN  CASE b < 128 -> ValidUtf8(Tail(s))
               [] b >= 194 /\ b <= 223 ->
                    n >= 2 /\ IsCont(s[2]) /\ ValidUtf8(SubSeq(s, 3, n))
               [] b >= 224 /\ b <= 239 ->
                    /\ n >= 3
                    /\ IsCont(s[2]) /\ IsCont(s[3])
                    /\ (b = 224 => s[2] >= 160)
                    /\ (b = 237 => s[2] <= 159)
                    /\ ValidUtf8(SubSeq(s, 4, n))
               [] b >= 240 /\ b <= 244 ->
                    /\ n >= 4
                    /\ IsCont(s[2]) /\ IsCont(s[3]) /\ IsCont(s[4])
                    /\ (b = 240 => s[2] >= 144)
                    /\ (b = 244 => s[2] <= 143)
                    /\ ValidUtf8(SubSeq(s, 5, n))
               [] OTHER -> FALSE

(***************************************************************************)
(* CoAPRouter.  map is a function from the methods present to a function   *)
(* from the paths present to a handler.  Handlers are function pointers:   *)
(* the model names them and HandlerApply gives what each returns.          *)
(***************************************************************************)
None == [some |-> FALSE, message |-> NoPacket]

Some(message) == [some |-> TRUE, message |-> message]

\* CoAPRequest::from_packet: the decoded message, the response template
\* derived from it, and the peer address
from_packet(packet, source) ==
    [message |-> packet, response |-> auto_response(packet), source |-> source]

BigPayload == Rep(MaxPacketLen + 1, 0)

\* What the handlers of the model return for a request whose response
\* template exists.  echo_handler is the one of router.rs 70..76 and
\* server.rs 331..337; the others are further user functions.
HandlerApply(handler, request) ==
    LET response == request.response.packet
    IN  CASE handler = "echo_handler" ->
               Some(set_payload(response,
                                Head(get_option(request.message, "UriPath").list)))
          [] handler = "fixed_handler" -> Some(set_payload(response, <<1>>))
          [] handler = "big_handler" -> Some(set_payload(response, BigPayload))
          [] OTHER -> None                    \* "none_handler"

route_FreshDispatch(map, method, endpoint, handler) ==
    MapInsert(map, method, MapInsert(EmptyMap, endpoint, handler))

\* route(method, endpoint, handler), 20..24
route(map, method, endpoint, handler) ==
    LET dispatch == IF method \in DOMAIN map THEN map[method] ELSE EmptyMap
    IN  MapInsert(map, method, MapInsert(dispatch, endpoint, handler))

\* req.get_class(): the class of the request's header
get_class(request) == request.message.header.code

FirstUriLast(uri_ll) == uri_ll[Len(uri_ll)]

\* uri_ll.front(), 44
FirstUri(uri_ll) == Head(uri_ll)

\* the path handle looks up: [some |-> FALSE] when there is none (42..45)
RequestPath(request) ==
    LET uri == get_option(request.message, "UriPath")
    IN  IF ~uri.some \/ uri.list = <<>> THEN [some |-> FALSE, path |-> <<>>]
        ELSE IF ~ValidUtf8(FirstUri(uri.list)) THEN [some |-> FALSE, path |-> <<>>]
        ELSE [some |-> TRUE, path |-> FirstUri(uri.list)]

\* the handler handle invokes, or NoValue (46..57)
SelectHandler(map, request) ==
    LET p == RequestPath(request)
        class == get_class(request)
    IN  IF ~p.some THEN NoValue
        ELSE IF class[1] # "Request" THEN NoValue
        ELSE IF class[2] \notin DOMAIN map THEN NoValue
        ELSE IF p.path \notin DOMAIN map[class[2]] THEN NoValue
        ELSE map[class[2]][p.path]

\* CoAPRouter::handle, 39..58
router_handle(map, request) ==
    LET h == SelectHandler(map, request)
    IN  IF h = NoValue THEN None ELSE HandlerApply(h, request)

(***************************************************************************)
(* PacketSpec: a Packet is built through its public API, encoded with      *)
(* to_bytes, and the bytes are decoded with from_bytes.                    *)
(***************************************************************************)
MaxOps == 3

\* 1, 8, 9, 16 and 256 bytes
TokenChoices == {<<81>>, Rep(8, 255), Rep(9, 1), Rep(16, 2), Rep(256, 255)}

OptionChoices == {"UriPath", "Size1"}

ValueChoices == {<<>>, <<255>>, Rep(13, 7), Rep(269, 9), Rep(270, 9)}

ListChoices == {<<>>, <<<<72, 105>>, <<255>>>>}

PayloadChoices == {<<255>>, Rep(MaxPacketLen - 5, 3), Rep(MaxPacketLen - 4, 3),
                   Rep(MaxPacketLen - 3, 3)}

Building == ppc = "build" /\ nOps < MaxOps

Built(p) ==
    /\ pkt' = p
    /\ nOps' = nOps + 1
    /\ UNCHANGED <<ppc, wire, decoded, autoResp, overflowChecks>>
    /\ UNCHANGED <<buf, parsed, codeVars, routerVars, serverVars>>

SetVersion == Building /\ Built([pkt EXCEPT !.header = set_version(@, 1)])

TypeChoices == {"Confirmable", "NonConfirmable", "Acknowledgement", "Reset"}

SetType ==
    /\ Building
    /\ \E t \in TypeChoices : Built([pkt EXCEPT !.header = set_type(@, t)])

\* the public field header.code is assigned
SetCode == Building /\ Built([pkt EXCEPT !.header.code = Response("Content")])

SetMessageId == Building /\ Built([pkt EXCEPT !.header.message_id = 33950])

SetToken ==
    /\ Building
    /\ \E token \in TokenChoices :
         IF set_token_panics(token)
         THEN /\ ppc' = "panic"
              /\ UNCHANGED <<pkt, nOps, wire, decoded, autoResp, overflowChecks>>
              /\ UNCHANGED <<buf, parsed, codeVars, routerVars, serverVars>>
         ELSE Built(set_token(pkt, token))

SetOption ==
    /\ Building
    /\ \E tp \in OptionChoices, list \in ListChoices :
         Built(set_option(pkt, tp, list))

AddOption ==
    /\ Building
    /\ \E tp \in OptionChoices, value \in ValueChoices :
         Built(add_option(pkt, tp, value))

SetPayload ==
    /\ Building
    /\ \E payload \in PayloadChoices : Built(set_payload(pkt, payload))

ToBytes ==
    /\ ppc = "build"
    /\ ppc' = "encoded"
    /\ wire' = to_bytes(pkt)
    /\ UNCHANGED <<pkt, nOps, decoded, autoResp, overflowChecks>>
    /\ UNCHANGED <<buf, parsed, codeVars, routerVars, serverVars>>

FromBytes ==
    /\ ppc = "encoded"
    /\ wire.tag = "Ok"
    /\ ppc' = "decoded"
    /\ decoded' = from_bytes(wire.bytes, overflowChecks)
    /\ UNCHANGED <<pkt, nOps, wire, autoResp, overflowChecks>>
    /\ UNCHANGED <<buf, parsed, codeVars, routerVars, serverVars>>

\* auto_response(&pkt), 610..627
AutoResponse ==
    /\ ppc = "build"
    /\ ppc' = "responded"
    /\ autoResp' = [done   |-> TRUE,
                    some   |-> auto_response(pkt).some,
                    packet |-> auto_response(pkt).packet]
    /\ UNCHANGED <<pkt, nOps, wire, decoded, overflowChecks>>
    /\ UNCHANGED <<buf, parsed, codeVars, routerVars, serverVars>>

(***************************************************************************)
(* RouterSpec: handlers are registered, then a request is dispatched.      *)
(***************************************************************************)
MaxRoutes == 2

Foo == <<102, 111, 111>>

Bar == <<98, 97, 114>>

\* valid UTF-8 of two bytes
EAcute == <<195, 169>>

Methods == {"Get", "Post"}

Endpoints == {Foo, EAcute}

Handlers == {"echo_handler", "fixed_handler", "none_handler"}

ClassChoices == {Request("Get"), Request("Post"), Response("Content"), Empty}

\* the lists of UriPath values; <<195>> and <<255>> are not UTF-8
UriLists == {<<>>, <<Foo>>, <<Bar>>, <<Foo, Bar>>, <<Bar, Foo>>,
             <<EAcute, Foo>>, <<<<195>>, Foo>>, <<<<255>>>>, <<Foo, <<255>>>>}

\* a request has no UriPath option, or one set to a list
UriChoices == {[present |-> FALSE, list |-> <<>>]}
                 \cup {[present |-> TRUE, list |-> l] : l \in UriLists}

MakeMessage(class, uris) ==
    LET p == [PacketNew EXCEPT
                 !.header = [set_type(set_version(@, 1), "Confirmable")
                                EXCEPT !.code = class]]
    IN  IF ~uris.present THEN p ELSE set_option(p, "UriPath", uris.list)

RouterRequests ==
    {from_packet(MakeMessage(class, uris), 0) :
        class \in ClassChoices, uris \in UriChoices}

Route ==
    /\ rpc = "routing"
    /\ nRoutes < MaxRoutes
    /\ \E method \in Methods, endpoint \in Endpoints, handler \in Handlers :
         routes' = route(routes, method, endpoint, handler)
    /\ nRoutes' = nRoutes + 1
    /\ UNCHANGED <<req, rpc, routed, called>>
    /\ UNCHANGED <<codeVars, decodeVars, packetVars, serverVars>>

RouterHandle ==
    /\ rpc = "routing"
    /\ \E r \in RouterRequests :
         /\ req' = r
         /\ called' = SelectHandler(routes, r)
         /\ routed' = router_handle(routes, r)
    /\ rpc' = "handled"
    /\ UNCHANGED <<routes, nRoutes>>
    /\ UNCHANGED <<codeVars, decodeVars, packetVars, serverVars>>

(***************************************************************************)
(* CoAPServer.  The owner thread calls set_worker_num, handle, stop and    *)
(* drops the server.  Every successful spawn in handle starts a new        *)
(* generation g of threads: an event thread (evState[g]) with its control  *)
(* channel (ctl[g]: notifications not yet delivered) and worker pool       *)
(* (poolSize[g] workers, poolQueue[g] the jobs submitted and not yet       *)
(* taken, running[g] the jobs being run), and a transmit thread            *)
(* (txState[g]) with its queue txQueue[g].  The socket is one: socketBuf   *)
(* holds the datagrams received and not yet read, readyPending tells       *)
(* whether a readable event waits in the running event loop.               *)
(*                                                                         *)
(* startedSinceStop, stopDone, handled and txLog are history variables:    *)
(* whether a handle() succeeded with no stop() called since, the           *)
(* generations whose stop() has returned, the datagrams given to the       *)
(* dispatcher, and what the transmit threads did with each item taken.     *)
(***************************************************************************)
DEFAULT_WORKER_NUM == 4

\* None in the server's Option fields; Some holds the generation
NoThread == 0

MaxStarts == 2

MaxCalls == 4

MaxDatagrams == 2

Gens == 1..MaxStarts

WorkerNums == {1}

Big == <<98, 105, 103>>

ServerRouter ==
    route(route(EmptyMap, "Get", Foo, "echo_handler"), "Get", Big, "big_handler")

Dispatchers == {[kind |-> "FunctionHandler", f |-> "fixed_handler", r |-> EmptyMap],
                [kind |-> "RouterHandler", f |-> "", r |-> ServerRouter]}

NoDispatcher == [kind |-> "None", f |-> "", r |-> EmptyMap]

\* the datagrams peers send: a Get of foo, of bar and of big, and two
\* bytes that are no message
DatagramChoices ==
    {to_bytes(MakeMessage(Request("Get"), [present |-> TRUE, list |-> <<path>>])).bytes :
        path \in {Foo, Bar, Big}}
      \cup {<<64, 1>>}

NoCall == [op |-> "none", val |-> "none"]

Called(op, val) ==
    /\ ret' = [op |-> op, val |-> val]
    /\ nCalls' = nCalls + 1

OwnerIdle == ownerPc = "idle" /\ nCalls < MaxCalls

TxSendersHandlerOnly(g) ==
    IF evState[g] \in {"init", "running"} THEN 1 ELSE 0

\* the senders of generation g's transmit queue that are alive: the
\* event handler's, and the clone each submitted job holds
TxSenders(g) ==
    (IF evState[g] \in {"init", "running"} THEN 1 ELSE 0)
      + Len(poolQueue[g]) + Cardinality(running[g])

EventThreadEnded(g) == evState[g] \in {"init_failed", "terminated", "panicked"}

\* set_worker_num, 232..234
SetWorkerNum ==
    /\ OwnerIdle
    /\ \E n \in WorkerNums : worker_num' = n
    /\ Called("set_worker_num", "Unit")
    /\ UNCHANGED <<event_sender, event_thread, tx_thread, ownerPc, gen,
                   startedSinceStop, dispatcher, evState, ctl, txState, txQueue,
                   poolSize, poolQueue, running, socketBuf, readyPending,
                   nArrived, sent, stopDone>>
    /\ UNCHANGED <<codeVars, decodeVars, packetVars, routerVars, handled, txLog>>

\* handle, 171..174
HandleAlreadyRunning ==
    /\ OwnerIdle
    /\ event_sender # NoThread
    /\ Called("handle", "AnotherHandlerIsRunning")
    /\ UNCHANGED <<event_sender, event_thread, tx_thread, worker_num, ownerPc,
                   gen, startedSinceStop, dispatcher, evState, ctl, txState,
                   txQueue, poolSize, poolQueue, running, socketBuf,
                   readyPending, nArrived, sent, stopDone>>
    /\ UNCHANGED <<codeVars, decodeVars, packetVars, routerVars, handled, txLog>>

\* handle, 175..181: the socket cannot be cloned
HandleNetworkError ==
    /\ OwnerIdle
    /\ event_sender = NoThread
    /\ Called("handle", "NetworkError")
    /\ UNCHANGED <<event_sender, event_thread, tx_thread, worker_num, ownerPc,
                   gen, startedSinceStop, dispatcher, evState, ctl, txState,
                   txQueue, poolSize, poolQueue, running, socketBuf,
                   readyPending, nArrived, sent, stopDone>>
    /\ UNCHANGED <<codeVars, decodeVars, packetVars, routerVars, handled, txLog>>

\* handle, 184..208: the channels are made, both threads are spawned and
\* the owner waits in rx.recv()
HandleSpawn ==
    /\ OwnerIdle
    /\ event_sender = NoThread
    /\ gen < MaxStarts
    /\ gen' = gen + 1
    /\ \E d \in Dispatchers : dispatcher' = [dispatcher EXCEPT ![gen + 1] = d]
    /\ txState' = [txState EXCEPT ![gen + 1] = "running"]
    /\ evState' = [evState EXCEPT ![gen + 1] = "init"]
    /\ poolSize' = [poolSize EXCEPT ![gen + 1] = worker_num]
    /\ ownerPc' = "handle_wait"
    /\ Called("handle", "pending")
    /\ UNCHANGED <<event_sender, event_thread, tx_thread, worker_num,
                   startedSinceStop, ctl, txQueue, poolQueue, running,
                   socketBuf, readyPending, nArrived, sent, stopDone>>
    /\ UNCHANGED <<codeVars, decodeVars, packetVars, routerVars, handled, txLog>>

\* the event thread, 197..201: the pool and the event loop are made, the
\* socket is registered (a socket that is readable already raises its
\* event at once) and the control sender goes back to the owner
EventInitOk ==
    /\ \E g \in Gens :
         /\ evState[g] = "init"
         /\ evState' = [evState EXCEPT ![g] = "running"]
    /\ readyPending' = (socketBuf # <<>>)
    /\ UNCHANGED <<event_sender, event_thread, tx_thread, worker_num, ownerPc,
                   ret, nCalls, gen, startedSinceStop, dispatcher, ctl, txState,
                   txQueue, poolSize, poolQueue, running, socketBuf, nArrived,
                   sent, stopDone>>
    /\ UNCHANGED <<codeVars, decodeVars, packetVars, routerVars, handled, txLog>>

\* the event thread, 198..199: EventLoop::new() or register() fails and
\* the unwrap panics; the thread's senders are dropped
EventInitFail ==
    /\ \E g \in Gens :
         /\ evState[g] = "init"
         /\ evState' = [evState EXCEPT ![g] = "init_failed"]
    /\ UNCHANGED <<event_sender, event_thread, tx_thread, worker_num, ownerPc,
                   ret, nCalls, gen, startedSinceStop, dispatcher, ctl, txState,
                   txQueue, poolSize, poolQueue, running, socketBuf,
                   readyPending, nArrived, sent, stopDone>>
    /\ UNCHANGED <<codeVars, decodeVars, packetVars, routerVars, handled, txLog>>

\* handle, 208..214
HandleReturnOk ==
    /\ ownerPc = "handle_wait"
    /\ evState[gen] \notin {"init", "init_failed"}
    /\ event_sender' = gen
    /\ event_thread' = gen
    /\ tx_thread' = gen
    /\ startedSinceStop' = TRUE
    /\ ownerPc' = "idle"
    /\ ret' = [op |-> "handle", val |-> "Ok"]
    /\ UNCHANGED <<worker_num, nCalls, gen, dispatcher, evState, ctl, txState,
                   txQueue, poolSize, poolQueue, running, socketBuf,
                   readyPending, nArrived, sent, stopDone>>
    /\ UNCHANGED <<codeVars, decodeVars, packetVars, routerVars, handled, txLog>>

\* handle, 215
HandleReturnEventLoopError ==
    /\ ownerPc = "handle_wait"
    /\ evState[gen] = "init_failed"
    /\ ownerPc' = "idle"
    /\ ret' = [op |-> "handle", val |-> "EventLoopError"]
    /\ UNCHANGED <<event_sender, event_thread, tx_thread, worker_num, nCalls,
                   gen, startedSinceStop, dispatcher, evState, ctl, txState,
                   txQueue, poolSize, poolQueue, running, socketBuf,
                   readyPending, nArrived, sent, stopDone>>
    /\ UNCHANGED <<codeVars, decodeVars, packetVars, routerVars, handled, txLog>>

\* handle, 187: the second clone of the socket fails and the unwrap panics
HandleClonePanic ==
    /\ OwnerIdle
    /\ event_sender = NoThread
    /\ ownerPc' = "panicked"
    /\ Called("handle", "panic")
    /\ UNCHANGED <<event_sender, event_thread, tx_thread, worker_num, gen,
                   startedSinceStop, dispatcher, evState, ctl, txState, txQueue,
                   poolSize, poolQueue, running, socketBuf, readyPending,
                   nArrived, sent, stopDone>>
    /\ UNCHANGED <<codeVars, decodeVars, packetVars, routerVars, handled, txLog>>

OptionTakeKeeps(field) == field

\* Option::take, 221 and 225: the field is left None
OptionTake(field) == NoThread

\* stop() is entered by a call of the owner or by the drop of the server
InStop == ownerPc \in {"idle", "dropping"} /\ (ownerPc = "idle" => nCalls < MaxCalls)

StopEntered(val) ==
    /\ ret' = [op |-> "stop", val |-> val]
    /\ nCalls' = IF ownerPc = "idle" THEN nCalls + 1 ELSE nCalls
    /\ startedSinceStop' = FALSE

\* stop, 221..228, with no sender: nothing is done
StopNotStarted ==
    /\ InStop
    /\ event_sender = NoThread
    /\ event_sender' = OptionTake(event_sender)
    /\ ownerPc' = IF ownerPc = "dropping" THEN "dropped" ELSE "idle"
    /\ StopEntered("Unit")
    /\ UNCHANGED <<event_thread, tx_thread, worker_num, gen, dispatcher,
                   evState, ctl, txState, txQueue, poolSize, poolQueue, running,
                   socketBuf, readyPending, nArrived, sent, stopDone>>
    /\ UNCHANGED <<codeVars, decodeVars, packetVars, routerVars, handled, txLog>>

\* stop, 221..225: the signal is sent to the running event loop and the
\* owner waits in join()
StopSend ==
    /\ InStop
    /\ event_sender # NoThread
    /\ evState[event_sender] = "running"
    /\ event_sender' = OptionTake(event_sender)
    /\ ctl' = [ctl EXCEPT ![event_sender] = @ + 1]
    /\ ownerPc' = IF ownerPc = "dropping" THEN "drop_join" ELSE "stop_join"
    /\ StopEntered("pending")
    /\ UNCHANGED <<event_thread, tx_thread, worker_num, gen, dispatcher,
                   evState, txState, txQueue, poolSize, poolQueue, running,
                   socketBuf, readyPending, nArrived, sent, stopDone>>
    /\ UNCHANGED <<codeVars, decodeVars, packetVars, routerVars, handled, txLog>>

\* stop, 224, when the event loop has ended already: the send succeeds
\* and nobody reads the signal
StopSendToEndedLoop ==
    /\ InStop
    /\ event_sender # NoThread
    /\ evState[event_sender] # "running"
    /\ event_sender' = OptionTake(event_sender)
    /\ ctl' = [ctl EXCEPT ![event_sender] = @ + 1]
    /\ ownerPc' = IF ownerPc = "dropping" THEN "drop_join" ELSE "stop_join"
    /\ StopEntered("pending")
    /\ UNCHANGED <<event_thread, tx_thread, worker_num, gen, dispatcher,
                   evState, txState, txQueue, poolSize, poolQueue, running,
                   socketBuf, readyPending, nArrived, sent, stopDone>>
    /\ UNCHANGED <<codeVars, decodeVars, packetVars, routerVars, handled, txLog>>

\* stop, 224, when the event loop has ended already: the send fails and
\* the unwrap panics
StopSendPanics ==
    /\ InStop
    /\ event_sender # NoThread
    /\ evState[event_sender] # "running"
    /\ event_sender' = OptionTake(event_sender)
    /\ ownerPc' = "panicked"
    /\ StopEntered("panic")
    /\ UNCHANGED <<event_thread, tx_thread, worker_num, gen, dispatcher,
                   evState, ctl, txState, txQueue, poolSize, poolQueue, running,
                   socketBuf, readyPending, nArrived, sent, stopDone>>
    /\ UNCHANGED <<codeVars, decodeVars, packetVars, routerVars, handled, txLog>>

\* stop, 225: join() returns once the event thread has ended; the
\* transmit thread's handle is not touched
StopJoined ==
    /\ ownerPc \in {"stop_join", "drop_join"}
    /\ EventThreadEnded(event_thread)
    /\ stopDone' = stopDone \cup {event_thread}
    /\ event_thread' = OptionTake(event_thread)
    /\ ownerPc' = IF ownerPc = "drop_join" THEN "dropped" ELSE "idle"
    /\ ret' = [op |-> "stop", val |-> "Unit"]
    /\ UNCHANGED <<event_sender, tx_thread, worker_num, nCalls, gen,
                   startedSinceStop, dispatcher, evState, ctl, txState, txQueue,
                   poolSize, poolQueue, running, socketBuf, readyPending,
                   nArrived, sent>>
    /\ UNCHANGED <<codeVars, decodeVars, packetVars, routerVars, handled, txLog>>

\* Drop for CoAPServer, 262..266: stop() is called
DropServer ==
    /\ ownerPc = "idle"
    /\ ownerPc' = "dropping"
    /\ UNCHANGED <<event_sender, event_thread, tx_thread, worker_num, ret,
                   nCalls, gen, startedSinceStop, dispatcher, evState, ctl,
                   txState, txQueue, poolSize, poolQueue, running, socketBuf,
                   readyPending, nArrived, sent, stopDone>>
    /\ UNCHANGED <<codeVars, decodeVars, packetVars, routerVars, handled, txLog>>

(***************************************************************************)
(* The network, the event thread, the workers and the transmit thread.     *)
(***************************************************************************)
\* a peer's datagram reaches the socket; the running event loop, which
\* registered the socket edge-triggered (199), gets a readable event
Arrive ==
    /\ nArrived < MaxDatagrams
    /\ nArrived' = nArrived + 1
    /\ \E bytes \in DatagramChoices :
         socketBuf' = Append(socketBuf,
                             [id |-> nArrived + 1, src |-> nArrived + 1,
                              bytes |-> bytes])
    /\ readyPending' = IF \E g \in Gens : evState[g] = "running"
                       THEN TRUE ELSE readyPending
    /\ UNCHANGED <<event_sender, event_thread, tx_thread, worker_num, ownerPc,
                   ret, nCalls, gen, startedSinceStop, dispatcher, evState, ctl,
                   txState, txQueue, poolSize, poolQueue, running, sent,
                   stopDone>>
    /\ UNCHANGED <<codeVars, decodeVars, packetVars, routerVars, handled, txLog>>

\* thread_pool.execute, 91: the job is put in the pool's queue
Execute(queue, job) == Append(queue, job)

\* ready, 86..120: one datagram is read and a job is submitted
ReadyRecv ==
    /\ \E g \in Gens :
         /\ evState[g] = "running"
         /\ readyPending
         /\ socketBuf # <<>>
         /\ poolQueue' = [poolQueue EXCEPT ![g] = Execute(@, Head(socketBuf))]
    /\ socketBuf' = Tail(socketBuf)
    /\ readyPending' = FALSE
    /\ UNCHANGED <<event_sender, event_thread, tx_thread, worker_num, ownerPc,
                   ret, nCalls, gen, startedSinceStop, dispatcher, evState, ctl,
                   txState, txQueue, poolSize, running, nArrived, sent,
                   stopDone>>
    /\ UNCHANGED <<codeVars, decodeVars, packetVars, routerVars, handled, txLog>>

\* what the event thread does when recv_from gives no datagram, 121..124
ReadFailure(state) == "panicked"

\* ready, 86 and 121..124: a readable event with nothing to read
\* (recv_from returns Ok(None)); the thread panics
ReadyNoDatagram ==
    /\ \E g \in Gens :
         /\ evState[g] = "running"
         /\ socketBuf = <<>>
         /\ evState' = [evState EXCEPT ![g] = ReadFailure(@)]
    /\ readyPending' = FALSE
    /\ UNCHANGED <<event_sender, event_thread, tx_thread, worker_num, ownerPc,
                   ret, nCalls, gen, startedSinceStop, dispatcher, ctl, txState,
                   txQueue, poolSize, poolQueue, running, socketBuf, nArrived,
                   sent, stopDone>>
    /\ UNCHANGED <<codeVars, decodeVars, packetVars, routerVars, handled, txLog>>

\* ready, 86 and 121..124: recv_from returns an error; the thread panics
ReadyRecvError ==
    /\ \E g \in Gens :
         /\ evState[g] = "running"
         /\ readyPending
         /\ evState' = [evState EXCEPT ![g] = ReadFailure(@)]
    /\ readyPending' = FALSE
    /\ UNCHANGED <<event_sender, event_thread, tx_thread, worker_num, ownerPc,
                   ret, nCalls, gen, startedSinceStop, dispatcher, ctl, txState,
                   txQueue, poolSize, poolQueue, running, socketBuf, nArrived,
                   sent, stopDone>>
    /\ UNCHANGED <<codeVars, decodeVars, packetVars, routerVars, handled, txLog>>

NotifyKeepsRunning ==
    /\ \E g \in Gens :
         /\ evState[g] = "running"
         /\ ctl[g] > 0
         /\ ctl' = [ctl EXCEPT ![g] = @ - 1]
    /\ UNCHANGED <<event_sender, event_thread, tx_thread, worker_num, ownerPc,
                   ret, nCalls, gen, startedSinceStop, dispatcher, evState,
                   txState, txQueue, poolSize, poolQueue, running, socketBuf,
                   readyPending, nArrived, sent, stopDone>>
    /\ UNCHANGED <<codeVars, decodeVars, packetVars, routerVars, handled, txLog>>

\* notify, 129..132: the signal is delivered, the loop shuts down and the
\* thread ends, dropping the handler with its sender and its pool
Notify ==
    /\ \E g \in Gens :
         /\ evState[g] = "running"
         /\ ctl[g] > 0
         /\ evState' = [evState EXCEPT ![g] = "terminated"]
         /\ ctl' = [ctl EXCEPT ![g] = @ - 1]
    /\ readyPending' = FALSE
    /\ UNCHANGED <<event_sender, event_thread, tx_thread, worker_num, ownerPc,
                   ret, nCalls, gen, startedSinceStop, dispatcher, txState,
                   txQueue, poolSize, poolQueue, running, socketBuf, nArrived,
                   sent, stopDone>>
    /\ UNCHANGED <<codeVars, decodeVars, packetVars, routerVars, handled, txLog>>

\* a free worker of the pool takes the oldest job
WorkerTake ==
    /\ \E g \in Gens :
         /\ poolQueue[g] # <<>>
         /\ Cardinality(running[g]) < poolSize[g]
         /\ running' = [running EXCEPT ![g] = @ \cup {Head(poolQueue[g])}]
         /\ poolQueue' = [poolQueue EXCEPT ![g] = Tail(@)]
    /\ UNCHANGED <<event_sender, event_thread, tx_thread, worker_num, ownerPc,
                   ret, nCalls, gen, startedSinceStop, dispatcher, evState, ctl,
                   txState, txQueue, poolSize, socketBuf, readyPending,
                   nArrived, sent, stopDone>>
    /\ UNCHANGED <<codeVars, decodeVars, packetVars, routerVars, handled, txLog>>

DispatchFunctionOnly(d, rqst) ==
    IF d.kind = "FunctionHandler" THEN HandlerApply(d.f, rqst) ELSE None

\* the match on the dispatcher, 97..100
Dispatch(d, rqst) ==
    IF d.kind = "FunctionHandler" THEN HandlerApply(d.f, rqst)
    ELSE router_handle(d.r, rqst)

\* the job, 92..118: the items it sends into the transmit queue
JobItems(d, job, checks) ==
    LET p == from_bytes(job.bytes, checks)
    IN  IF p.tag # "Ok" THEN <<>>
        ELSE LET result == Dispatch(d, from_packet(p.packet, job.src))
             IN  IF result.some
                 THEN <<[address |-> job.src, response |-> result.message]>>
                 ELSE <<>>

\* the job, 92..100: the dispatcher is invoked when the datagram decodes
JobCallsDispatcher(job, checks) == from_bytes(job.bytes, checks).tag = "Ok"

\* a worker runs its job to the end and drops the job's sender
WorkerRun ==
    /\ \E g \in Gens :
         \E job \in running[g] :
           /\ txQueue' = [txQueue EXCEPT
                            ![g] = @ \o JobItems(dispatcher[g], job, overflowChecks)]
           /\ running' = [running EXCEPT ![g] = @ \ {job}]
           /\ handled' = IF JobCallsDispatcher(job, overflowChecks)
                         THEN handled \cup {job.id} ELSE handled
    /\ UNCHANGED <<event_sender, event_thread, tx_thread, worker_num, ownerPc,
                   ret, nCalls, gen, startedSinceStop, dispatcher, evState, ctl,
                   txState, poolSize, poolQueue, socketBuf, readyPending,
                   nArrived, sent, stopDone, txLog>>
    /\ UNCHANGED <<codeVars, decodeVars, packetVars, routerVars>>

TxSendNewest ==
    /\ \E g \in Gens :
         /\ txState[g] = "running"
         /\ txQueue[g] # <<>>
         /\ LET item == txQueue[g][Len(txQueue[g])]
            IN  /\ to_bytes(item.response).tag = "Ok"
                /\ sent' = Append(sent, [to |-> item.address,
                                         bytes |-> to_bytes(item.response).bytes])
         /\ txLog' = Append(txLog, [to |-> txQueue[g][Len(txQueue[g])].address, what |-> "sent"])
         /\ txQueue' = [txQueue EXCEPT ![g] = SubSeq(@, 1, Len(@) - 1)]
    /\ UNCHANGED <<event_sender, event_thread, tx_thread, worker_num, ownerPc,
                   ret, nCalls, gen, startedSinceStop, dispatcher, evState, ctl,
                   txState, poolSize, poolQueue, running, socketBuf,
                   readyPending, nArrived, stopDone>>
    /\ UNCHANGED <<codeVars, decodeVars, packetVars, routerVars, handled>>

\* transmit_handler, 241..246: an item is received, encoded and sent
TxSend ==
    /\ \E g \in Gens :
         /\ txState[g] = "running"
         /\ txQueue[g] # <<>>
         /\ to_bytes(Head(txQueue[g]).response).tag = "Ok"
         /\ sent' = Append(sent, [to |-> Head(txQueue[g]).address,
                                  bytes |-> to_bytes(Head(txQueue[g]).response).bytes])
         /\ txLog' = Append(txLog, [to |-> Head(txQueue[g]).address, what |-> "sent"])
         /\ txQueue' = [txQueue EXCEPT ![g] = Tail(@)]
    /\ UNCHANGED <<event_sender, event_thread, tx_thread, worker_num, ownerPc,
                   ret, nCalls, gen, startedSinceStop, dispatcher, evState, ctl,
                   txState, poolSize, poolQueue, running, socketBuf,
                   readyPending, nArrived, stopDone>>
    /\ UNCHANGED <<codeVars, decodeVars, packetVars, routerVars, handled>>

\* transmit_handler, 245: send_to fails and its result is ignored
TxSendFails ==
    /\ \E g \in Gens :
         /\ txState[g] = "running"
         /\ txQueue[g] # <<>>
         /\ to_bytes(Head(txQueue[g]).response).tag = "Ok"
         /\ txLog' = Append(txLog, [to |-> Head(txQueue[g]).address, what |-> "send_failed"])
         /\ txQueue' = [txQueue EXCEPT ![g] = Tail(@)]
    /\ UNCHANGED <<event_sender, event_thread, tx_thread, worker_num, ownerPc,
                   ret, nCalls, gen, startedSinceStop, dispatcher, evState, ctl,
                   txState, poolSize, poolQueue, running, socketBuf,
                   readyPending, nArrived, sent, stopDone>>
    /\ UNCHANGED <<codeVars, decodeVars, packetVars, routerVars, handled>>

TxEncodeErrorExits ==
    /\ \E g \in Gens :
         /\ txState[g] = "running"
         /\ txQueue[g] # <<>>
         /\ to_bytes(Head(txQueue[g]).response).tag = "Err"
         /\ txLog' = Append(txLog, [to |-> Head(txQueue[g]).address, what |-> "encode_failed"])
         /\ txQueue' = [txQueue EXCEPT ![g] = Tail(@)]
         /\ txState' = [txState EXCEPT ![g] = "exited"]
    /\ UNCHANGED <<event_sender, event_thread, tx_thread, worker_num, ownerPc,
                   ret, nCalls, gen, startedSinceStop, dispatcher, evState, ctl,
                   poolSize, poolQueue, running, socketBuf,
                   readyPending, nArrived, sent, stopDone>>
    /\ UNCHANGED <<codeVars, decodeVars, packetVars, routerVars, handled>>

\* transmit_handler, 247..249: the response does not encode
TxEncodeError ==
    /\ \E g \in Gens :
         /\ txState[g] = "running"
         /\ txQueue[g] # <<>>
         /\ to_bytes(Head(txQueue[g]).response).tag = "Err"
         /\ txLog' = Append(txLog, [to |-> Head(txQueue[g]).address, what |-> "encode_failed"])
         /\ txQueue' = [txQueue EXCEPT ![g] = Tail(@)]
    /\ UNCHANGED <<event_sender, event_thread, tx_thread, worker_num, ownerPc,
                   ret, nCalls, gen, startedSinceStop, dispatcher, evState, ctl,
                   txState, poolSize, poolQueue, running, socketBuf,
                   readyPending, nArrived, sent, stopDone>>
    /\ UNCHANGED <<codeVars, decodeVars, packetVars, routerVars, handled>>

\* transmit_handler, 254..257: recv fails once the queue is empty and
\* every sender is dropped
TxExit ==
    /\ \E g \in Gens :
         /\ txState[g] = "running"
         /\ txQueue[g] = <<>>
         /\ TxSenders(g) = 0
         /\ txState' = [txState EXCEPT ![g] = "exited"]
    /\ UNCHANGED <<event_sender, event_thread, tx_thread, worker_num, ownerPc,
                   ret, nCalls, gen, startedSinceStop, dispatcher, evState, ctl,
                   txQueue, poolSize, poolQueue, running, socketBuf,
                   readyPending, nArrived, sent, stopDone>>
    /\ UNCHANGED <<codeVars, decodeVars, packetVars, routerVars, handled, txLog>>

(***************************************************************************)
(* The specifications.                                                     *)
(***************************************************************************)
ServerIdle ==
    /\ event_sender = NoThread /\ event_thread = NoThread /\ tx_thread = NoThread
    /\ worker_num = DEFAULT_WORKER_NUM
    /\ ownerPc = "off" /\ ret = NoCall /\ nCalls = 0 /\ gen = 0
    /\ startedSinceStop = FALSE
    /\ dispatcher = [g \in Gens |-> NoDispatcher]
    /\ evState = [g \in Gens |-> "none"]
    /\ ctl = [g \in Gens |-> 0]
    /\ txState = [g \in Gens |-> "none"]
    /\ txQueue = [g \in Gens |-> <<>>]
    /\ poolSize = [g \in Gens |-> 0]
    /\ poolQueue = [g \in Gens |-> <<>>]
    /\ running = [g \in Gens |-> {}]
    /\ socketBuf = <<>> /\ readyPending = FALSE /\ nArrived = 0
    /\ sent = <<>> /\ stopDone = {} /\ handled = {} /\ txLog = <<>>

CodeInit ==
    /\ code \in CodeBytes /\ codeOut = NoCodeOut
    /\ codeStr \in DottedStrings(code) /\ setOut = NoSetOut
    /\ DecodeIdle /\ PacketIdle /\ RouterIdle /\ ServerIdle

CodeNext == Convert \/ SetCodeStr

CodeSpec == CodeInit /\ [][CodeNext]_vars

DecodeInit ==
    /\ buf \in DecodeInputs /\ overflowChecks \in BOOLEAN /\ parsed = NotYet
    /\ CodeIdle /\ PacketIdle /\ RouterIdle /\ ServerIdle

DecodeNext == Decode

DecodeSpec == DecodeInit /\ [][DecodeNext]_vars

\* a message starts as Packet::new() or as what from_bytes made of a
\* datagram, here one that has a single option with the number 300
PacketInit ==
    /\ pkt \in {PacketNew,
                from_bytes(<<64, 1, 132, 158, 224, 0, 31>>, FALSE).packet}
    /\ nOps = 0 /\ ppc = "build"
    /\ wire = NoWire /\ decoded = NotYet /\ autoResp = NoAutoResponse
    /\ buf = <<>> /\ overflowChecks \in BOOLEAN /\ parsed = NotYet
    /\ CodeIdle /\ RouterIdle /\ ServerIdle

PacketNext ==
    \/ SetVersion \/ SetType \/ SetCode \/ SetMessageId \/ SetToken
    \/ SetOption \/ AddOption \/ SetPayload \/ ToBytes \/ FromBytes
    \/ AutoResponse

PacketSpec == PacketInit /\ [][PacketNext]_vars

RouterInit ==
    /\ routes = EmptyMap /\ nRoutes = 0 /\ req = NoRequest /\ rpc = "routing"
    /\ routed = NoResponse /\ called = NoValue
    /\ CodeIdle /\ DecodeIdle /\ PacketIdle /\ ServerIdle

RouterNext == Route \/ RouterHandle

RouterSpec == RouterInit /\ [][RouterNext]_vars

\* the state after CoAPServer::new, 145..162
Init ==
    /\ event_sender = NoThread /\ event_thread = NoThread /\ tx_thread = NoThread
    /\ worker_num = DEFAULT_WORKER_NUM
    /\ ownerPc = "idle" /\ ret = NoCall /\ nCalls = 0 /\ gen = 0
    /\ startedSinceStop = FALSE
    /\ dispatcher = [g \in Gens |-> NoDispatcher]
    /\ evState = [g \in Gens |-> "none"]
    /\ ctl = [g \in Gens |-> 0]
    /\ txState = [g \in Gens |-> "none"]
    /\ txQueue = [g \in Gens |-> <<>>]
    /\ poolSize = [g \in Gens |-> 0]
    /\ poolQueue = [g \in Gens |-> <<>>]
    /\ running = [g \in Gens |-> {}]
    /\ socketBuf = <<>> /\ readyPending = FALSE /\ nArrived = 0
    /\ sent = <<>> /\ stopDone = {} /\ handled = {} /\ txLog = <<>>
    /\ CodeIdle /\ DecodeIdle /\ PacketIdle /\ RouterIdle

Next ==
    \/ SetWorkerNum
    \/ HandleAlreadyRunning \/ HandleNetworkError \/ HandleSpawn
    \/ HandleClonePanic \/ EventInitOk \/ EventInitFail
    \/ HandleReturnOk \/ HandleReturnEventLoopError
    \/ StopNotStarted \/ StopSend \/ StopSendToEndedLoop \/ StopSendPanics
    \/ StopJoined \/ DropServer
    \/ Arrive \/ ReadyRecv \/ ReadyNoDatagram \/ ReadyRecvError \/ Notify
    \/ WorkerTake \/ WorkerRun \/ TxSend \/ TxSendFails \/ TxEncodeError
    \/ TxExit

Spec == Init /\ [][Next]_vars

\* A server that is started once and then serves: handle() is called and
\* returns Ok, datagrams arrive, and the threads run.  No stop(), no drop
\* and no failure of a system call happens, so the event loop, once
\* running, stays running.
ServeNext ==
    \/ HandleSpawn \/ EventInitOk \/ HandleReturnOk
    \/ Arrive \/ ReadyRecv
    \/ WorkerTake \/ WorkerRun \/ TxSend \/ TxEncodeError

\* The event thread takes the steps it can take: it finishes its start
\* and its event loop handles a pending readable event.  Nothing is
\* assumed about the peers' datagrams or about the speed of the workers.
ServeSpec ==
    /\ Init /\ [][ServeNext]_vars
    /\ WF_vars(EventInitOk) /\ WF_vars(HandleReturnOk) /\ WF_vars(ReadyRecv)

\* A server that is started, serves and is stopped: handle() returns Ok,
\* datagrams arrive, stop() is called (by the owner or from Drop), and the
\* event thread ends on the signal or on a failed read.
ShutdownNext ==
    \/ HandleSpawn \/ EventInitOk \/ HandleReturnOk
    \/ StopSend \/ StopSendToEndedLoop \/ StopSendPanics \/ StopJoined
    \/ DropServer
    \/ Arrive \/ ReadyRecv \/ ReadyRecvError \/ Notify
    \/ WorkerTake \/ WorkerRun
    \/ TxSend \/ TxSendFails \/ TxEncodeError \/ TxExit

\* a job is running in a worker: the state in which WorkerRun can be
\* taken, whatever the job's datagram is
WorkerRunEnabled == \E g \in Gens : running[g] # {}

\* one pass of the transmit thread's loop, 240..258
TransmitStep == TxSend \/ TxSendFails \/ TxEncodeError \/ TxExit

\* the transmit thread's recv() can return: an item is queued (to_bytes
\* gives Ok or Err for it), or the queue is empty and no sender is left
TransmitStepEnabled ==
    \E g \in Gens :
        /\ txState[g] = "running"
        /\ txQueue[g] # <<>> \/ TxSenders(g) = 0

\* The threads take the steps they can take: the event loop delivers a
\* signal that is on its control channel, a free worker takes a queued
\* job, a job that runs returns, and the transmit thread's recv() returns
\* when an item is queued or every sender is gone.  Nothing is assumed
\* about the owner or the peers.  The last two conjuncts are weak
\* fairness of WorkerRun and of TransmitStep, written out with the state
\* predicates above in the place of ENABLED.
ShutdownSpec ==
    /\ Init /\ [][ShutdownNext]_vars
    /\ WF_vars(Notify)
    /\ WF_vars(WorkerTake)
    /\ ([]<>(~WorkerRunEnabled) \/ []<><<WorkerRun>>_vars)
    /\ ([]<>(~TransmitStepEnabled) \/ []<><<TransmitStep>>_vars)

(***************************************************************************)
(* The properties.                                                         *)
(***************************************************************************)

\* C1: from_bytes returns an error, or a packet whose token has exactly as
\* many bytes as the token_length field of its header says, and at most 8.
C1_TokenLengthMatches ==
    parsed.tag = "Ok" =>
        /\ Len(parsed.packet.token) = get_token_length(parsed.packet.header)
        /\ Len(parsed.packet.token) <= 8
        /\ parsed.packet.token = Slice(buf, 4, 4 + Len(parsed.packet.token))

\* a packet with a token of eight bytes and bytes after it was decoded
C1_Witness ==
    /\ parsed.tag = "Ok"
    /\ Len(parsed.packet.token) = 8
    /\ Len(buf) > 12

\* C2: from_bytes is total and never faults: for every byte sequence it
\* returns a packet or a ParseError, without an out-of-range access and
\* without arithmetic overflow.
C2_NeverFaults == parsed.tag \in {"None", "Ok", "Err"}

\* the option multi-map without the numbers that hold no value
C3_WithValues(options) ==
    [n \in {k \in DOMAIN options : options[k] # <<>>} |-> options[n]]

C3_WellFormed == ppc = "decoded" /\ Len(pkt.token) <= 8

C4_FailsIffEmittedTooLong ==
    ppc = "encoded" =>
        ((wire.tag = "Err") <=>
            (Len(Assemble(pkt, EncodeOptions(pkt.options, DOMAIN pkt.options, 0)))
                > MaxPacketLen))

\* C5: when stop() has returned on a started server, its event thread and
\* its transmit thread have both terminated.
C5_StopJoinsBothThreads ==
    \A g \in stopDone : EventThreadEnded(g) /\ txState[g] = "exited"

\* C6: the event thread stops running only because stop() sent its signal;
\* no failed read ends it.
C6_OnlyStopEndsEventThread ==
    [][\A g \in Gens :
          (evState[g] = "running" /\ evState'[g] # "running") => ctl[g] > 0]_vars

\* C7: the number of tasks waiting in the worker pool never exceeds the
\* worker count.
C7_WaitingTasksBounded ==
    \A g \in Gens : evState[g] # "none" => Len(poolQueue[g]) <= poolSize[g]

\* the step is the entry of a call of handle()
C8_HandleCalled == nCalls' = nCalls + 1 /\ ret'.op = "handle"

\* C8: handle() returns AnotherHandlerIsRunning exactly when an earlier
\* handle() succeeded with no stop() called since; it then spawns no thread
\* and leaves the control sender and the thread handles as they were.
C8_AnotherHandlerIsRunning ==
    [][C8_HandleCalled =>
          /\ (ret'.val = "AnotherHandlerIsRunning") <=> startedSinceStop
          /\ ret'.val = "AnotherHandlerIsRunning" =>
                 /\ ownerPc' = "idle"
                 /\ UNCHANGED <<event_sender, event_thread, tx_thread, gen,
                                evState, txState, poolSize>>]_vars

\* the server was started, stopped and started again, and a further
\* handle() was refused
C8_Witness ==
    /\ 1 \in stopDone
    /\ event_sender = 2
    /\ ret = [op |-> "handle", val |-> "AnotherHandlerIsRunning"]

C9_Uris == get_option(req.message, "UriPath").list

\* the cases in which handle has no handler to invoke
C9_NoneCase ==
    LET class == req.message.header.code
    IN  \/ class[1] # "Request"
        \/ get_option_number("UriPath") \notin DOMAIN req.message.options
        \/ C9_Uris = <<>>
        \/ ~ValidUtf8(Head(C9_Uris))
        \/ class[2] \notin DOMAIN routes
        \/ Head(C9_Uris) \notin DOMAIN routes[class[2]]

\* the request with other UriPath values after the first
C9_WithTail(tail) ==
    [req EXCEPT !.message =
        set_option(@, "UriPath", <<Head(C9_Uris)>> \o tail)]

\* C9: handle returns none when the class is no request method, when there
\* is no UriPath value or the first is not UTF-8, or when no handler is
\* registered for the method and the first UriPath value; otherwise it
\* returns the result of that handler.  UriPath values after the first do
\* not change the handler chosen.
C9_RouterHandle ==
    rpc = "handled" =>
        /\ C9_NoneCase => (routed = None /\ called = NoValue)
        /\ ~C9_NoneCase =>
               LET h == routes[req.message.header.code[2]][Head(C9_Uris)]
               IN  called = h /\ routed = HandlerApply(h, req)
        /\ C9_Uris # <<>> =>
               \A tail \in {<<>>, <<Foo>>, <<Bar, <<255>>>>} :
                   SelectHandler(routes, C9_WithTail(tail)) = called

\* the echo handler answered a request that has two UriPath values
C9_Witness ==
    /\ rpc = "handled"
    /\ called = "echo_handler"
    /\ routed.some
    /\ Len(C9_Uris) = 2

\* C10: for every code byte c whose class is not Reserved,
\* class_to_code(code_to_class(c)) = c and class_to_str(code_to_class(c))
\* = code_to_str(c).
C10_CodeClassRoundTrip ==
    (codeOut.done /\ codeOut.class # Reserved) =>
        /\ codeOut.back = code
        /\ codeOut.class_str = codeOut.code_str

\* the byte 0x8C was converted to PreconditionFailed and back
C10_Witness ==
    /\ codeOut.done
    /\ code = 140
    /\ codeOut.class = Response("PreconditionFailed")
    /\ codeOut.code_str = <<"4", ".", "1", "2">>


\* the header, the token and the encoded options of the message built
C11_Prefix ==
    <<pkt.header.ver_type_tkl, class_to_code(pkt.header.code),
      pkt.header.message_id \div 256, pkt.header.message_id % 256>>
        \o pkt.token \o EncodeOptions(pkt.options, DOMAIN pkt.options, 0)

\* C11: when the code is Empty, to_bytes gives exactly the header, the
\* token and the encoded options, whatever the payload field holds; when
\* the code is not Empty and the payload is not empty, the output is these
\* bytes followed by 0xFF and the payload.
C11_PayloadMarker ==
    (ppc = "encoded" /\ wire.tag = "Ok") =>
        /\ pkt.header.code = Empty => wire.bytes = C11_Prefix
        /\ (pkt.header.code # Empty /\ pkt.payload # <<>>) =>
               wire.bytes = C11_Prefix \o <<255>> \o pkt.payload
        /\ pkt.payload = <<>> => wire.bytes = C11_Prefix

\* a message with code Empty, a payload and an option was encoded
C11_Witness ==
    /\ ppc = "encoded"
    /\ wire.tag = "Ok"
    /\ pkt.header.code = Empty
    /\ pkt.payload # <<>>
    /\ pkt.options # EmptyMap

\* the option numbers and values of the message, ascending by number and
\* in insertion order within a number
RECURSIVE C12_Flat(_, _)
C12_Flat(options, numbers) ==
    IF numbers = {} THEN <<>>
    ELSE LET n == CHOOSE x \in numbers : \A y \in numbers : x <= y
         IN  [i \in 1..Len(options[n]) |-> [number |-> n, value |-> options[n][i]]]
                 \o C12_Flat(options, numbers \ {n})

\* the options on the wire: each with the delta from the one before it
RECURSIVE C12_Wire(_, _, _)
C12_Wire(flat, i, previous) ==
    IF i > Len(flat) THEN <<>>
    ELSE OptionHeader(flat[i].number - previous, Len(flat[i].value))
             \o flat[i].value \o C12_Wire(flat, i + 1, flat[i].number)

\* C12: in the output of to_bytes the options appear in ascending option
\* number, in insertion order within a number, and each delta is the
\* option's number minus the number of the option emitted before it (0
\* before the first).
C12_OptionDeltas ==
    (ppc = "encoded" /\ wire.tag = "Ok") =>
        LET flat == C12_Flat(pkt.options, DOMAIN pkt.options)
            bytes == C12_Wire(flat, 1, 0)
            start == 4 + Len(pkt.token)
        IN  /\ \A i \in 1..(Len(flat) - 1) : flat[i].number <= flat[i + 1].number
            /\ Slice(wire.bytes, start, start + Len(bytes)) = bytes
            /\ Len(wire.bytes) = start + Len(bytes)
                   + (IF pkt.header.code # Empty /\ pkt.payload # <<>>
                      THEN 1 + Len(pkt.payload) ELSE 0)

\* a message with options under two numbers, one of them with two values,
\* was encoded
C12_Witness ==
    /\ ppc = "encoded"
    /\ wire.tag = "Ok"
    /\ Cardinality(DOMAIN pkt.options) = 2
    /\ \E n \in DOMAIN pkt.options : Len(pkt.options[n]) = 2


\* the step of generation g's transmit queue, if it is one: an item
\* enters at the tail, or the transmit thread takes the oldest item and
\* makes at most one send, of that item's bytes to that item's peer
C13_QueueStep(g) ==
    LET q == txQueue[g]
    IN  txQueue'[g] # q =>
            \/ /\ Len(txQueue'[g]) > Len(q)
               /\ SubSeq(txQueue'[g], 1, Len(q)) = q
               /\ sent' = sent
            \/ /\ q # <<>>
               /\ txState[g] = "running"
               /\ txQueue'[g] = Tail(q)
               /\ LET encoded == to_bytes(Head(q).response)
                  IN  IF encoded.tag = "Ok"
                      THEN sent' \in {sent,
                                      Append(sent, [to |-> Head(q).address,
                                                    bytes |-> encoded.bytes])}
                      ELSE sent' = sent

\* C13: the transmit thread handles the items of its queue in the order
\* in which they entered it, each once, with one send per item that
\* encodes; nothing is sent except by taking an item.
C13_TransmitFifo ==
    [][/\ \A g \in Gens : C13_QueueStep(g)
       /\ sent' # sent => \E g \in Gens : txQueue'[g] # txQueue[g]]_vars

\* two responses were sent, the second datagram's before the first's
C13_Witness ==
    /\ Len(sent) = 2
    /\ sent[1].to = 2
    /\ sent[2].to = 1

\* nothing is left for generation g's transmit thread and no sender of its
\* queue is alive
C14_Drained(g) ==
    /\ txQueue[g] = <<>>
    /\ poolQueue[g] = <<>>
    /\ running[g] = {}
    /\ evState[g] \notin {"init", "running"}

\* C14: the transmit thread exits only when its queue is empty and the
\* event handler's sender and every job's sender are dropped, so every
\* item sent into the queue, also by a job still running after the
\* shutdown signal, was taken before the exit and none enters after it.
C14_ExitOnlyWhenDrained ==
    /\ [](\A g \in Gens : txState[g] = "exited" => C14_Drained(g))
    /\ [][\A g \in Gens :
             txState[g] = "exited" => txQueue'[g] = txQueue[g]]_vars

\* a stopped generation's transmit thread has exited after two responses
\* were sent
C14_Witness ==
    \E g \in Gens :
        /\ txState[g] = "exited"
        /\ evState[g] = "terminated"
        /\ g \in stopDone
        /\ Len(sent) = 2

\* the step enters stop(), by a call or by the drop of the server
C15_StopEntered ==
    \/ ownerPc = "idle" /\ nCalls' = nCalls + 1 /\ ret'.op = "stop"
    \/ ownerPc = "dropping" /\ ownerPc' # "dropping"

\* C15: stop() on a server that was never started, or that was stopped
\* with no start since, sends no signal, joins nothing, returns at once
\* and changes nothing; the drop of the server enters stop(), which on a
\* started server takes the sender and sends the signal.
C15_StopIdempotent ==
    [][/\ (C15_StopEntered /\ ~startedSinceStop) =>
              /\ ownerPc' = (IF ownerPc = "dropping" THEN "dropped" ELSE "idle")
              /\ ret' = [op |-> "stop", val |-> "Unit"]
              /\ UNCHANGED <<event_sender, event_thread, tx_thread, worker_num,
                             gen, dispatcher, evState, ctl, txState, txQueue,
                             poolSize, poolQueue, running, socketBuf,
                             readyPending, nArrived, sent, stopDone>>
       /\ (C15_StopEntered /\ startedSinceStop) =>
              /\ event_sender # NoThread
              /\ event_sender' = NoThread
              /\ ctl'[event_sender] = ctl[event_sender] + 1
                    \/ ownerPc' = "panicked"
       /\ (ownerPc = "dropping" /\ ownerPc' # "dropping") =>
              /\ ret'.op = "stop"
              /\ ownerPc' \in {"dropped", "drop_join", "panicked"}]_vars

\* the server was started and stopped, and dropped afterwards
C15_Witness ==
    /\ ownerPc = "dropped"
    /\ nCalls = 2
    /\ gen = 1
    /\ 1 \in stopDone
    /\ evState[1] = "terminated"
    /\ worker_num = DEFAULT_WORKER_NUM


\* C18: a worker puts an item into the transmit queue for a datagram
\* exactly when the datagram decodes and the dispatcher returns a response;
\* it puts at most one, addressed to the datagram's source.  A datagram
\* that does not decode gives no item and no call of the dispatcher.
C18_WorkerEnqueues ==
    [][\A g \in Gens : \A job \in running[g] :
          job \notin running'[g] =>
              LET added == SubSeq(txQueue'[g], Len(txQueue[g]) + 1,
                                  Len(txQueue'[g]))
                  p == from_bytes(job.bytes, overflowChecks)
                  rqst == from_packet(p.packet, job.src)
                  result == IF dispatcher[g].kind = "FunctionHandler"
                            THEN HandlerApply(dispatcher[g].f, rqst)
                            ELSE router_handle(dispatcher[g].r, rqst)
              IN  /\ SubSeq(txQueue'[g], 1, Len(txQueue[g])) = txQueue[g]
                  /\ Len(added) <= 1
                  /\ p.tag # "Ok" => (added = <<>> /\ handled' = handled)
                  /\ p.tag = "Ok" =>
                         /\ handled' = handled \cup {job.id}
                         /\ (Len(added) = 1) <=> result.some
                         /\ result.some =>
                                added = <<[address |-> job.src,
                                           response |-> result.message]>>]_vars

\* both datagrams were run by workers of a router: one did not decode, the
\* other was dispatched and its response is in the transmit queue
C18_Witness ==
    /\ nArrived = 2
    /\ socketBuf = <<>>
    /\ Cardinality(handled) = 1
    /\ \E g \in Gens :
          /\ dispatcher[g].kind = "RouterHandler"
          /\ poolQueue[g] = <<>>
          /\ running[g] = {}
          /\ Len(txQueue[g]) = 1
          /\ txQueue[g][1].address \in handled


\* the two type bits of a header
C16_TypeBits(header) == (header.ver_type_tkl \div 16) % 4

\* C16: auto_response returns None exactly when the request's type is
\* Acknowledgement (2) or Reset (3); otherwise the response's type is
\* Acknowledgement for a Confirmable (0) request and NonConfirmable (1) for
\* a NonConfirmable request.
C16_AutoResponseType ==
    ppc = "responded" =>
        /\ ~autoResp.some <=> C16_TypeBits(pkt.header) \in {2, 3}
        /\ autoResp.some =>
               C16_TypeBits(autoResp.packet.header) =
                   (IF C16_TypeBits(pkt.header) = 0 THEN 2 ELSE 1)

\* auto_response answered a NonConfirmable request and refused a Reset
C16_Witness ==
    /\ ppc = "responded"
    /\ \/ autoResp.some /\ C16_TypeBits(pkt.header) = 1
       \/ ~autoResp.some /\ C16_TypeBits(pkt.header) = 3
    /\ pkt.token # <<>>

\* C17: when auto_response succeeds the response has version 1, code
\* Response(Content), the request's message id, the request's token with
\* the header's token_length equal to the token's byte length, the
\* request's payload and no options.
C17_AutoResponseFields ==
    (ppc = "responded" /\ autoResp.some) =>
        /\ autoResp.packet.header.ver_type_tkl \div 64 = 1
        /\ autoResp.packet.header.code = Response("Content")
        /\ autoResp.packet.header.message_id = pkt.header.message_id
        /\ autoResp.packet.token = pkt.token
        /\ autoResp.packet.header.ver_type_tkl % 16 = Len(pkt.token)
        /\ autoResp.packet.payload = pkt.payload
        /\ autoResp.packet.options = EmptyMap

\* the dotted form "C.DD" of the code byte, DD zero-padded to two digits
C19_Dotted == Decimal(code \div 32) \o <<".">> \o Decimal02(code % 32)

\* C19: for every class digit C in 0..7 and detail DD in 0..31, set_code
\* on "C.DD" succeeds; when the byte C*32+DD is a code of the class table
\* (its class is not Reserved) the header serializes that byte and
\* get_code returns "C.DD"; for every other byte the header holds
\* Reserved, serializes 0xFF and get_code returns "7.31".
C19_SetCodeKnownCodes ==
    (setOut.done /\ codeStr = C19_Dotted) =>
        /\ setOut.tag = "Ok"
        /\ code_to_class(code) # Reserved =>
               /\ setOut.raw_code = code
               /\ setOut.get_code = codeStr
        /\ code_to_class(code) = Reserved =>
               /\ setOut.raw_code = 255
               /\ setOut.get_code = <<"7", ".", "3", "1">>

\* set_code("4.04") was called: the header serializes 0x84 and get_code
\* returns "4.04"
C19_Witness ==
    /\ setOut.done
    /\ codeStr = <<"4", ".", "0", "4">>
    /\ setOut.raw_code = 132
    /\ setOut.get_code = codeStr

\* C19 as stated: for every class digit C in 0..7 and detail DD in 0..31,
\* after set_code on "C.DD" the header serializes the byte C*32+DD and
\* get_code returns "C.DD".
C19_SetCodeEveryCode ==
    (setOut.done /\ codeStr = C19_Dotted) =>
        /\ setOut.tag = "Ok"
        /\ setOut.raw_code = code
        /\ setOut.get_code = codeStr


\* one option field on the wire: the nibble itself up to 12, one extension
\* byte plus 13 for 13, two big-endian extension bytes plus 269 for 14
C20_Field(b, nibble, idx) ==
    CASE nibble = 13 -> [val |-> At(b, idx) + 13, idx |-> idx + 1]
      [] nibble = 14 -> [val |-> At(b, idx) * 256 + At(b, idx + 1) + 269,
                         idx |-> idx + 2]
      [] OTHER -> [val |-> nibble, idx |-> idx]

\* the bytes of b from idx on hold one whole option
C20_OptionFits(b, idx) ==
    LET byte == At(b, idx)
        ext(nibble) == IF nibble = 13 THEN 1 ELSE IF nibble = 14 THEN 2 ELSE 0
        dext == ext(byte \div 16)
        lext == ext(byte % 16)
    IN  /\ byte \div 16 # 15 /\ byte % 16 # 15
        /\ idx + 1 + dext + lext <= Len(b)
        /\ C20_Field(b, byte % 16, idx + 1 + dext).idx
             + C20_Field(b, byte % 16, idx + 1 + dext).val <= Len(b)

\* the multi-map the options on the wire describe: every option under the
\* sum of the deltas up to it, its value the length bytes after its header,
\* in wire order; a wire that is not a list of whole options gives a map
\* with the key -1
RECURSIVE C20_WireOptions(_, _, _, _)
C20_WireOptions(b, idx, number, options) ==
    IF ~(idx < Len(b)) \/ At(b, idx) = 255 THEN options
    ELSE IF ~C20_OptionFits(b, idx) THEN MapPushBack(options, -1, <<>>)
    ELSE LET byte == At(b, idx)
             d == C20_Field(b, byte \div 16, idx + 1)
             l == C20_Field(b, byte % 16, d.idx)
         IN  C20_WireOptions(b, l.idx + l.val, number + d.val,
                 MapPushBack(options, number + d.val,
                             Slice(b, l.idx, l.idx + l.val)))

\* C20: when from_bytes succeeds, its option multi-map holds every option
\* of the wire under the running sum of the deltas up to it, with the
\* length bytes that follow the option header as its value, values of one
\* number in wire order, none lost or merged.
C20_OptionsFromWire ==
    parsed.tag = "Ok" =>
        parsed.packet.options =
            C20_WireOptions(buf, 4 + (At(buf, 0) % 16), 0, EmptyMap)


\* the index at which the list of whole options that starts at idx ends:
\* the index of the first 0xFF at an option boundary, or Len(b) when the
\* options reach the end of the buffer; -1 when the bytes are not a list of
\* whole options
RECURSIVE C21_OptionsEnd(_, _)
C21_OptionsEnd(b, idx) ==
    IF ~(idx < Len(b)) \/ At(b, idx) = 255 THEN idx
    ELSE IF ~C20_OptionFits(b, idx) THEN -1
    ELSE LET byte == At(b, idx)
             d == C20_Field(b, byte \div 16, idx + 1)
             l == C20_Field(b, byte % 16, d.idx)
         IN  C21_OptionsEnd(b, l.idx + l.val)

C22_InvalidTokenLength ==
    (Len(buf) >= 4 /\ parsed.tag # "None") =>
        LET tkl == At(buf, 0) % 16
        IN  /\ parsed = Err("InvalidTokenLength")
                <=> (tkl > 8 \/ 4 + tkl > Len(buf))
            /\ parsed.tag = "Ok" => parsed.packet.token = Slice(buf, 4, 4 + tkl)

\* a header with token_length 8 followed by a single byte was rejected,
\* the buffer being too short for the token
C22_Witness ==
    /\ parsed = Err("InvalidTokenLength")
    /\ At(buf, 0) % 16 = 8
    /\ Len(buf) = 5

\* C23: from_bytes returns InvalidHeader exactly when the buffer has fewer
\* than 4 bytes; a returned packet has the first byte of the buffer as its
\* version, type and token length, whatever the version bits are, the
\* class of the second byte as its code (Reserved for an unknown code), and
\* the next two bytes as its message id.
C23_InvalidHeader ==
    parsed.tag # "None" =>
        /\ parsed = Err("InvalidHeader") <=> Len(buf) < 4
        /\ parsed.tag = "Ok" =>
               /\ parsed.packet.header.ver_type_tkl = At(buf, 0)
               /\ parsed.packet.header.code = code_to_class(At(buf, 1))
               /\ parsed.packet.header.message_id
                      = At(buf, 2) * 256 + At(buf, 3)
        /\ (Len(buf) = 4 /\ At(buf, 0) % 16 = 0) => parsed.tag = "Ok"

\* four bytes with version 3 and the unknown code 0xE0 were decoded
C23_Witness ==
    /\ parsed.tag = "Ok"
    /\ Len(buf) = 4
    /\ get_version(parsed.packet.header) = 3
    /\ At(buf, 1) = 224
    /\ parsed.packet.header.code = Reserved


\* the error the bytes of b from the option boundary idx on call for: ""
\* when they are whole options up to a marker or the end of the buffer
RECURSIVE C24_WireError(_, _)
C24_WireError(b, idx) ==
    IF ~(idx < Len(b)) \/ At(b, idx) = 255 THEN ""
    ELSE LET byte == At(b, idx)
             ext(nibble) == IF nibble = 13 THEN 1 ELSE IF nibble = 14 THEN 2 ELSE 0
             dext == ext(byte \div 16)
             lext == ext(byte % 16)
         IN  IF byte \div 16 = 15 THEN "InvalidOptionDelta"
             ELSE IF idx + 1 + dext > Len(b) THEN "InvalidOptionLength"
             ELSE IF byte % 16 = 15 THEN "InvalidOptionLength"
             ELSE IF idx + 1 + dext + lext > Len(b) THEN "InvalidOptionLength"
             ELSE IF ~C20_OptionFits(b, idx) THEN "InvalidOptionLength"
             ELSE LET l == C20_Field(b, byte % 16, idx + 1 + dext)
                  IN  C24_WireError(b, l.idx + l.val)

\* C24: when the token of the buffer is in order and the options on the
\* wire have a first byte with delta nibble 15, from_bytes returns
\* InvalidOptionDelta; when they have a length nibble 15, an extension byte
\* beyond the end of the buffer or a value that runs past the end of the
\* buffer, it returns InvalidOptionLength; an error carries no option.
C24_OptionErrors ==
    (/\ parsed.tag # "None"
     /\ Len(buf) >= 4
     /\ At(buf, 0) % 16 <= 8
     /\ 4 + (At(buf, 0) % 16) <= Len(buf)
     /\ C24_WireError(buf, 4 + (At(buf, 0) % 16)) # "") =>
        parsed = Err(C24_WireError(buf, 4 + (At(buf, 0) % 16)))


\* the first option of the buffer has an extended delta or length whose
\* extension bytes are inside the buffer
C27_FirstOptionExtended ==
    LET start == 4 + (At(buf, 0) % 16)
        ext(nibble) == IF nibble = 13 THEN 1 ELSE IF nibble = 14 THEN 2 ELSE 0
    IN  /\ Len(buf) >= 4 /\ At(buf, 0) % 16 <= 8
        /\ start < Len(buf)
        /\ At(buf, start) # 255
        /\ At(buf, start) \div 16 # 15 /\ At(buf, start) % 16 # 15
        /\ At(buf, start) \div 16 \in {13, 14} \/ At(buf, start) % 16 \in {13, 14}
        /\ start + 1 + ext(At(buf, start) \div 16) + ext(At(buf, start) % 16)
               <= Len(buf)

\* C27: a delta or length nibble of 13 decodes to the next byte plus 13
\* and a nibble of 14 to the big-endian value of the next two bytes plus
\* 269, for every value of the extension bytes, without overflow: decoding
\* the first option does not fault, and a returned packet holds it under
\* the number its delta gives, with a value as long as its length gives.
C27_ExtendedValues ==
    (parsed.tag # "None" /\ C27_FirstOptionExtended) =>
        LET start == 4 + (At(buf, 0) % 16)
            d == C20_Field(buf, At(buf, start) \div 16, start + 1)
            l == C20_Field(buf, At(buf, start) % 16, d.idx)
        IN  /\ parsed.tag # "Panic"
            /\ parsed.tag = "Ok" =>
                   /\ d.val \in DOMAIN parsed.packet.options
                   /\ Len(parsed.packet.options[d.val][1]) = l.val


\* a delta or a length v as the option format writes it: the nibble, and
\* the extension bytes
C28_Nibble(v) == IF v <= 12 THEN v ELSE IF v <= 268 THEN 13 ELSE 14

C28_Extension(v) ==
    IF v <= 12 THEN <<>>
    ELSE IF v <= 268 THEN <<v - 13>>
    ELSE <<(v - 269) \div 256, (v - 269) % 256>>

\* the options of the message as the option format writes them
RECURSIVE C28_Wire(_, _, _)
C28_Wire(flat, i, previous) ==
    IF i > Len(flat) THEN <<>>
    ELSE LET delta == flat[i].number - previous
             len   == Len(flat[i].value)
         IN  <<C28_Nibble(delta) * 16 + C28_Nibble(len)>>
                 \o C28_Extension(delta) \o C28_Extension(len)
                 \o flat[i].value \o C28_Wire(flat, i + 1, flat[i].number)

\* C28: in the output of to_bytes every option starts with a byte that
\* has the delta nibble in its high and the length nibble in its low four
\* bits, followed by the extension bytes of the delta and then those of
\* the length; a delta or length v is the nibble v up to 12, nibble 13 and
\* the byte v - 13 up to 268, nibble 14 and the two big-endian bytes of
\* v - 269 from 269 on; nibble 15 is not emitted.
C28_OptionFormat ==
    (ppc = "encoded" /\ wire.tag = "Ok") =>
        LET bytes == C28_Wire(C12_Flat(pkt.options, DOMAIN pkt.options), 1, 0)
            start == 4 + Len(pkt.token)
        IN  /\ Slice(wire.bytes, start, start + Len(bytes)) = bytes
            /\ \A i \in 1..Len(bytes) : bytes[i] \in 0..255
            /\ C24_WireError(bytes, 0) = ""

\* a message was encoded that has an option with a delta above 269 and
\* options with values of 13 and of 270 bytes
C28_Witness ==
    /\ ppc = "encoded"
    /\ wire.tag = "Ok"
    /\ 300 \in DOMAIN pkt.options
    /\ 11 \in DOMAIN pkt.options
    /\ \E i \in 1..Len(pkt.options[11]) : Len(pkt.options[11][i]) = 270
    /\ \E i \in 1..Len(pkt.options[11]) : Len(pkt.options[11][i]) = 13


\* the (method, path) pairs a router map has a handler for
C25_Registered(map) ==
    UNION {{<<m, p>> : p \in DOMAIN map[m]} : m \in DOMAIN map}

\* a request with the method m whose only UriPath value is p
C25_Request(m, p) ==
    from_packet(MakeMessage(Request(m), [present |-> TRUE, list |-> <<p>>]), 0)

C26_Skips(g) ==
    /\ txQueue[g] # <<>>
    /\ Len(txLog') = Len(txLog) + 1
    /\ txLog'[Len(txLog')].what \in {"encode_failed", "send_failed"}
    /\ txQueue'[g] # txQueue[g]

\* C26: when the transmit thread skips an item because it does not encode
\* or because its send fails, nothing is sent for the item, the item does
\* not go back into the queue, the thread stays running, and the items
\* behind it are next in their order; a running transmit thread with an
\* item in its queue can always take it.
C26_SkipsFailedItem ==
    /\ [][\A g \in Gens :
             C26_Skips(g) =>
                 /\ sent' = sent
                 /\ txQueue'[g] = Tail(txQueue[g])
                 /\ txState[g] = "running" /\ txState'[g] = "running"
                 /\ to_bytes(Head(txQueue[g]).response).tag = "Err"
                        <=> txLog'[Len(txLog')].what = "encode_failed"]_vars
    /\ [](\A g \in Gens :
             (txState[g] = "running" /\ txQueue[g] # <<>>) =>
                 ENABLED (TxSend \/ TxSendFails \/ TxEncodeError))

\* the response to the first datagram did not encode and was skipped, and
\* the response to the second was sent after it
C26_Witness ==
    /\ Len(txLog) = 2
    /\ txLog[1] = [to |-> 1, what |-> "encode_failed"]
    /\ txLog[2] = [to |-> 2, what |-> "sent"]
    /\ Len(sent) = 1


\* the datagram id is in the socket, not yet read
C29_Unread(id) == \E i \in 1..Len(socketBuf) : socketBuf[i].id = id

\* an event loop is running with the socket registered
C29_Started == \E g \in Gens : evState[g] = "running"

\* the datagram id was read and submitted to the pool of a generation
C29_Submitted(id) ==
    \/ id \in handled
    \/ \E g \in Gens :
         \/ \E i \in 1..Len(poolQueue[g]) : poolQueue[g][i].id = id
         \/ \E job \in running[g] : job.id = id
    \/ (~C29_Unread(id) /\ id <= nArrived)

\* C29: a datagram that is in the socket while an event loop is running
\* is eventually read and submitted to a worker, unless the event loop
\* ends first; also when it arrived together with others before one
\* readable event was handled.
C29_EveryDatagramRead ==
    \A id \in 1..MaxDatagrams :
        (C29_Unread(id) /\ C29_Started) ~> (C29_Submitted(id) \/ ~C29_Started)


\* C30: a call of stop() on a started server never faults, and when it
\* has returned the event loop of that server has observed the shutdown
\* signal and exited: no signal is left unread on the control channel and
\* the event thread ended by its shutdown; this in every state in which
\* stop() can be called, also when the event thread has ended before.
C30_StopCompletes ==
    /\ ~(ret.op = "stop" /\ ret.val = "panic")
    /\ \A g \in stopDone : ctl[g] = 0 /\ evState[g] = "terminated"


\* the option types of the API
C32_OptionTypes ==
    {"IfMatch", "UriHost", "ETag", "IfNoneMatch", "Observe", "UriPort",
     "LocationPath", "UriPath", "ContentFormat", "MaxAge", "UriQuery",
     "Accept", "LocationQuery", "Block2", "Block1", "ProxyUri",
     "ProxyScheme", "Size1"}

\* q differs from p at most in the values of the option type tp
C32_OnlyChanges(p, q, tp) ==
    /\ q.header = p.header
    /\ q.token = p.token
    /\ q.payload = p.payload
    /\ \A other \in C32_OptionTypes \ {tp} : get_option(q, other) = get_option(p, other)
    /\ DOMAIN q.options \ {get_option_number(tp)}
           = DOMAIN p.options \ {get_option_number(tp)}
    /\ \A n \in DOMAIN p.options \ {get_option_number(tp)} :
           q.options[n] = p.options[n]

\* C32: on every message that the API builds, add_option(t, v) leaves
\* the values of t as they were with v after them, set_option(t, list)
\* leaves exactly list as the values of t, and both leave every other
\* option, the header, the token and the payload as they were; get_option
\* returns the stored values of t in that order, and none for every type
\* of a new message.
C32_OptionFrame ==
    ppc = "build" =>
        /\ \A tp \in C32_OptionTypes, v \in ValueChoices :
               LET q == add_option(pkt, tp, v)
               IN  /\ C32_OnlyChanges(pkt, q, tp)
                   /\ get_option(q, tp).some
                   /\ get_option(q, tp).list = get_option(pkt, tp).list \o <<v>>
        /\ \A tp \in C32_OptionTypes, list \in ListChoices :
               LET q == set_option(pkt, tp, list)
               IN  /\ C32_OnlyChanges(pkt, q, tp)
                   /\ get_option(q, tp) = [some |-> TRUE, list |-> list]
        /\ \A tp \in C32_OptionTypes :
               get_option(pkt, tp).some
                   <=> get_option_number(tp) \in DOMAIN pkt.options
        /\ pkt = PacketNew =>
               \A tp \in C32_OptionTypes : ~get_option(pkt, tp).some

\* UriPath was set to a list of two values and a third was added after
\* them, while Size1 was never set
C32_Witness ==
    /\ ppc = "build"
    /\ get_option(pkt, "UriPath").some
    /\ get_option(pkt, "UriPath").list = <<<<72, 105>>, <<255>>, Rep(13, 7)>>
    /\ ~get_option(pkt, "Size1").some


\* stop() has taken the control sender of the started generation g
C31_StopCalled(g) == event_thread = g /\ event_sender = NoThread

\* C31: once stop() has been called on a started server, the transmit
\* thread of that start eventually terminates, when the event loop takes
\* the signal and every job that was submitted runs and returns.
C31_TransmitThreadEnds ==
    \A g \in Gens : C31_StopCalled(g) ~> (txState[g] = "exited")

\* the first start served a datagram, was stopped, and its transmit
\* thread has ended after the event loop and the last job
C31_Witness ==
    /\ 1 \in stopDone
    /\ evState[1] = "terminated"
    /\ 1 \in handled
    /\ txLog # <<>>
    /\ txState[1] = "exited"


====
